---- MODULE Spec2Model ----
(***************************************************************************)
(* Streaming response reconciliation of the chat relay server.             *)
(*                                                                         *)
(* JavaScript strings are modelled as sequences of one-character strings,  *)
(* so that trim, includes, slice and the <think> regular expressions are   *)
(* computed character by character, as the code computes them.             *)
(***************************************************************************)
EXTENDS Naturals, Sequences, FiniteSets

\* ------------------------------------------------------------------------
\* String primitives (String.prototype.trim / indexOf / includes / slice)
\* ------------------------------------------------------------------------

Range(s) == { s[i] : i \in 1..Len(s) }

\* t occurs in s at the 1-based position i
OccursAt(s, t, i) ==
    /\ i + Len(t) <= Len(s) + 1
    /\ \A k \in 1..Len(t) : s[i + k - 1] = t[k]

\* 1-based position of the first occurrence of t in s at or after from; 0 if none
RECURSIVE IndexOf(_, _, _)
IndexOf(s, t, from) ==
    IF from + Len(t) > Len(s) + 1 THEN 0
    ELSE IF OccursAt(s, t, from) THEN from
    ELSE IndexOf(s, t, from + 1)

Includes(s, t) == IndexOf(s, t, 1) # 0

\* 1-based position of the last occurrence of t in s at or before from; 0 if none
RECURSIVE LastIndexOf(_, _, _)
LastIndexOf(s, t, from) ==
    IF from < 1 THEN 0
    ELSE IF OccursAt(s, t, from) THEN from
    ELSE LastIndexOf(s, t, from - 1)

\* s.endsWith(t)
EndsWith(s, t) ==
    Len(t) <= Len(s) /\ SubSeq(s, Len(s) - Len(t) + 1, Len(s)) = t

\* s.slice(n): s without its first n characters
Slice(s, n) == SubSeq(s, n + 1, Len(s))

RECURSIVE TrimStart(_)
TrimStart(s) == IF s # <<>> /\ Head(s) = " " THEN TrimStart(Tail(s)) ELSE s

RECURSIVE TrimEnd(_)
TrimEnd(s) ==
    IF s # <<>> /\ s[Len(s)] = " " THEN TrimEnd(SubSeq(s, 1, Len(s) - 1)) ELSE s

Trim(s) == TrimEnd(TrimStart(s))

\* s.replace(/t/g, '') for a literal, non-empty t
RECURSIVE RemoveAll(_, _)
RemoveAll(s, t) ==
    LET i == IndexOf(s, t, 1)
    IN  IF i = 0 THEN s
        ELSE SubSeq(s, 1, i - 1) \o RemoveAll(Slice(s, i + Len(t) - 1), t)

\* ------------------------------------------------------------------------
\* processAIResponse: the reasoning extractor
\* ------------------------------------------------------------------------

OPEN == <<"<", "t", "h", "i", "n", "k", ">">>

CLOSE == <<"<", "/", "t", "h", "i", "n", "k", ">">>

\* faulty variant: the greedy /<think>([\s\S]*)<\/think>/g, whose one match
\* runs from the first start marker to the last end marker
CompleteThinksGreedy(s) ==
    LET i == IndexOf(s, OPEN, 1)
        j == LastIndexOf(s, CLOSE, Len(s))
    IN  IF i = 0 \/ j < i + Len(OPEN) THEN <<>>
        ELSE <<SubSeq(s, i + Len(OPEN), j - 1)>>

\* the captures match[1] of /<think>([\s\S]*?)<\/think>/g, in text order
RECURSIVE CompleteThinks(_)
CompleteThinks(s) ==
    LET i == IndexOf(s, OPEN, 1)
        j == IF i = 0 THEN 0 ELSE IndexOf(s, CLOSE, i + Len(OPEN))
    IN  IF j = 0 THEN <<>>
        ELSE <<SubSeq(s, i + Len(OPEN), j - 1)>>
                 \o CompleteThinks(Slice(s, j + Len(CLOSE) - 1))

\* s.replace(/<think>([\s\S]*?)<\/think>/g, '')
RECURSIVE RemoveComplete(_)
RemoveComplete(s) ==
    LET i == IndexOf(s, OPEN, 1)
        j == IF i = 0 THEN 0 ELSE IndexOf(s, CLOSE, i + Len(OPEN))
    IN  IF j = 0 THEN s
        ELSE SubSeq(s, 1, i - 1) \o RemoveComplete(Slice(s, j + Len(CLOSE) - 1))

\* faulty variant: without the look-up in uniqueThinks
AddThinkAgain(thinks, raw) ==
    LET thinkContent == Trim(raw)
    IN  IF thinkContent # <<>> THEN Append(thinks, thinkContent) ELSE thinks

\* if (thinkContent && !uniqueThinks.has(thinkContent)) thinks.push(thinkContent)
AddThink(thinks, raw) ==
    LET thinkContent == Trim(raw)
    IN  IF thinkContent # <<>> /\ thinkContent \notin Range(thinks)
        THEN Append(thinks, thinkContent)
        ELSE thinks

RECURSIVE AddThinks(_, _)
AddThinks(thinks, raws) ==
    IF raws = <<>> THEN thinks
    ELSE AddThinks(AddThink(thinks, Head(raws)), Tail(raws))

\* faulty variant: without the step for a start marker that is never closed
processCompleteOnly(response) ==
    LET complete   == AddThinks(<<>>, CompleteThinks(response))
        main1      == Trim(RemoveComplete(response))
        main3      == Trim(RemoveAll(RemoveAll(main1, OPEN), CLOSE))
    IN  [thinks |-> complete, mainContent |-> main3]

processAIResponse(response) ==
    LET complete   == AddThinks(<<>>, CompleteThinks(response))
        main1      == Trim(RemoveComplete(response))
        k          == IndexOf(main1, OPEN, 1)
        thinks     == IF k = 0 THEN complete
                      ELSE AddThink(complete, Slice(main1, k + Len(OPEN) - 1))
        main2      == IF k = 0 THEN main1 ELSE Trim(SubSeq(main1, 1, k - 1))
        main3      == Trim(RemoveAll(RemoveAll(main2, OPEN), CLOSE))
    IN  [thinks |-> thinks, mainContent |-> main3]

\* ------------------------------------------------------------------------
\* The merge rule of callDifyAPI ("Simple and effective deduplication")
\* ------------------------------------------------------------------------

\* faulty variant: the piece is put in front of the accumulated text
PrependPiece(fullResponse, piece) ==
    piece \o (IF fullResponse # <<>> THEN <<" ">> ELSE <<>>) \o fullResponse

\* faulty variant: the piece is appended without the space
AppendPieceUnspaced(fullResponse, piece) == fullResponse \o piece

\* fullResponse += (fullResponse ? ' ' : '') + piece
AppendPiece(fullResponse, piece) ==
    fullResponse \o (IF fullResponse # <<>> THEN <<" ">> ELSE <<>>) \o piece

\* faulty variant: without the branch for a fragment that contains the
\* accumulated text, such a fragment is appended whole
MergeWithoutSuperset(fullResponse, newContent) ==
    LET trimmedNew == Trim(newContent)
    IN  IF ~(newContent # <<>> /\ trimmedNew # <<>>)
        THEN [full |-> fullResponse, cont |-> FALSE]
        ELSE IF Trim(fullResponse) = trimmedNew
        THEN [full |-> fullResponse, cont |-> TRUE]
        ELSE IF Includes(fullResponse, trimmedNew)
        THEN [full |-> fullResponse, cont |-> TRUE]
        ELSE [full |-> AppendPiece(fullResponse, trimmedNew), cont |-> FALSE]

\* full: fullResponse after the block; cont: the block ended in `continue`,
\* which skips the push that follows it in the loop body
MergeFragment(fullResponse, newContent) ==
    LET trimmedNew == Trim(newContent)
    IN  IF ~(newContent # <<>> /\ trimmedNew # <<>>)
        THEN [full |-> fullResponse, cont |-> FALSE]
        ELSE IF Trim(fullResponse) = trimmedNew
        THEN [full |-> fullResponse, cont |-> TRUE]
        ELSE IF Includes(fullResponse, trimmedNew)
        THEN [full |-> fullResponse, cont |-> TRUE]
        ELSE IF Includes(trimmedNew, Trim(fullResponse))
        THEN LET extra == Trim(Slice(trimmedNew, Len(Trim(fullResponse))))
             IN  [full |-> IF extra # <<>> THEN AppendPiece(fullResponse, extra)
                           ELSE fullResponse,
                  cont |-> TRUE]
        ELSE [full |-> AppendPiece(fullResponse, trimmedNew), cont |-> FALSE]

\* ------------------------------------------------------------------------
\* Inputs: the upstream body, one line per record
\* ------------------------------------------------------------------------

\* most lines the upstream body of one request may hold
MaxRecords == 3

tA == <<"a">>

tAB == <<"a", " ", "b">>

tAx == <<"a", "!">>

tB == <<"b">>

tBlank == <<" ">>

tThinkA == OPEN \o <<"s">> \o CLOSE \o <<"A">>

\* an unterminated reasoning segment that follows the head of a marker
tCutOpen == <<"a", "<", "/", "t", "h", "i">> \o OPEN \o <<"x">>

\* the end of a reasoning segment, followed by the tail of a marker
tCutClose == CLOSE \o <<"n", "k", ">">>

Texts == { tA, tAB, tAx, tB, tBlank, CLOSE, tThinkA, tCutOpen, tCutClose }

\* One line of the body. prefixed: it starts with 'data: '; json: the payload
\* parses; the rest are the fields of the parsed object ("" and <<>> stand
\* for an absent or empty field).
Line(prefixed, json, event, cid, answer, text, outAnswer, sysAnswer) ==
    [prefixed |-> prefixed, json |-> json, event |-> event,
     conversation_id |-> cid, answer |-> answer, text |-> text,
     outAnswer |-> outAnswer, sysAnswer |-> sysAnswer]

NoLine == Line(FALSE, FALSE, "", "", <<>>, <<>>, <<>>, <<>>)

BadLine == Line(TRUE, FALSE, "", "", <<>>, <<>>, <<>>, <<>>)

Event(event, cid, answer, text, outAnswer, sysAnswer) ==
    Line(TRUE, TRUE, event, cid, answer, text, outAnswer, sysAnswer)

Message(cid, answer) == Event("message", cid, answer, <<>>, <<>>, <<>>)

Lines ==
    { BadLine,
      Event("workflow_started", "c1", <<>>, <<>>, <<>>, <<>>),
      Event("message_end", "", <<>>, <<>>, <<>>, <<>>),
      Message("c2", tA),
      Message("", tAB),
      Message("", tAx),
      Message("", tBlank),
      Message("", CLOSE),
      Message("", tCutOpen),
      Message("", tCutClose),
      Event("text_chunk", "", <<>>, tB, <<>>, <<>>),
      Event("node_finished", "", <<>>, <<>>, tThinkA, <<>>),
      Line(FALSE, TRUE, "node_finished", "", <<>>, <<>>, <<>>, tB) }

\* what every endpoint attempt may come to: an OK response, a 404, another
\* non-OK status, or fetch throwing
Outcomes == { "ok", "404", "500", "throw" }

Endpoints == 1..3

\* mockResponses[message] || `...`: never empty; the texts are shortened to
\* two characters, of which only the number matters
MockReply == <<"o", "k">>

\* ------------------------------------------------------------------------
\* State of one new_message request handled by server.js
\* ------------------------------------------------------------------------

VARIABLES
    pc,                  \* where the request's handler stands
    databaseAvailable,   \* the module flag set by initializeDatabase
    configured,          \* DIFY_API_URL and the API key are set
    reqConversationId,   \* data.conversationId of the frame ("" if absent)
    closedIn,            \* "" while the connection is open, else where the
                         \* handler stood when the connection closed
    dbDifyId,            \* conversations.dify_conversation_id of the conversation
    difyConversationId,  \* callDifyAPI's local of that name
    requestCid,          \* conversation_id of the upstream request body
    response,            \* the fetch result kept: "none", "ok", "notok" (a 404)
                         \* or "consumed" (not OK, and its body was read)
    body,                \* response.body: "none", "open", "ended" or "failed"
    payload,             \* the line the loop body last handled
    nread,               \* lines consumed so far
    finalEventSeen,      \* history: a message_end event was decoded
    dropped,             \* history: lines dropped by the catch of the loop body
    reported,            \* history: for each request so far, the last
                         \* conversation_id its events carried ("" if none)
    fullResponse,
    lastSent,
    firstMessageSent,
    isStreaming,         \* websocket_server.js: no message_end handled yet
    sent,                \* frames sent on the connection, in order
    answerWrites,        \* UPDATE messages SET answer = ?, think = ? WHERE id = ?
    inserts,             \* INSERT INTO messages: ids of the rows inserted
    mockPos,             \* characters of the mock reply already pushed
    mockStarts,          \* calls of mockAIResponse
    pieces,              \* a text handed to processAIResponse, in pieces
    extracted,           \* <<what processAIResponse returned for it>>
    streams,             \* two requests in flight: position, connection, lines read
    locals,              \* the locals of their calls of callDifyAPI
    wire,                \* the frames sent on each connection, in order
    unread,              \* the text of a body that has not arrived yet
    arrived,             \* history: the text of the body that has arrived
    buffer,              \* callDifyAPI's local of that name
    records,             \* history: the non-blank lines cut off the buffer
    carried,             \* history: a chunk arrived when the buffer held the
                         \* start of a line
    inMemoryMessages,    \* the values of the Map of that name, in order
    connections,         \* for each connection: not yet made, open or closed,
                         \* and whether a new_message handler is at its await
    received,            \* history: the kinds of the frames each connection sent
    users,               \* the rows of table users
    conversations,       \* the rows of table conversations
    inMemoryUsers,       \* the values of the Map of that name
    inMemoryConversations, \* the values of the Map of that name
    resolving,           \* two handleNewMessage calls at their resolve-or-create
                         \* steps: position, arguments, user and conversation
    contacted,           \* history: the endpoints fetch was called for, in
                         \* order, and what each call came to
    client               \* App.jsx, the connection effect: its locals, and the
                         \* calls of connect() before and after its cleanup

vars == <<pc, databaseAvailable, configured, reqConversationId, closedIn, dbDifyId,
          difyConversationId, requestCid, response, body, payload, nread,
          finalEventSeen, dropped, reported, fullResponse, lastSent, firstMessageSent,
          isStreaming, sent, answerWrites, inserts, mockPos, mockStarts,
          pieces, extracted, streams, locals, wire, unread, arrived, buffer,
          records, carried, inMemoryMessages, connections, received, users,
          conversations, inMemoryUsers, inMemoryConversations, resolving,
          contacted, client>>

\* the body of a response as text, and how callDifyAPI cuts it into lines
framing == <<unread, arrived, buffer, records, carried>>

\* the connections of wss and the frames that came in on them
inbound == <<connections, received>>

\* the records createUserIfNotExists and createConversationIfNotExists look
\* up and create
stores == <<users, conversations, inMemoryUsers, inMemoryConversations, resolving>>

detached == <<stores, contacted, client>>

\* what stands apart from the request of Spec: no step of it changes these
apart == <<pieces, extracted, streams, locals, wire, framing, inMemoryMessages,
           inbound, detached>>

env == <<databaseAvailable, configured, reqConversationId, closedIn, apart>>

session == <<dbDifyId, difyConversationId, requestCid>>

loop == <<payload, nread, finalEventSeen, dropped, reported, fullResponse,
          lastSent, firstMessageSent, isStreaming>>

mock == <<mockPos, mockStarts>>

userMessageId == "u1"

assistantMessageId == "a1"

mockMessageId == "m1"

Frame(type, id, content, thinks, streaming) ==
    [type |-> type, id |-> id, content |-> content, thinks |-> thinks,
     isStreaming |-> streaming]

StreamingMessage(id, content, thinks, streaming) ==
    Frame("streaming_message", id, content, thinks, streaming)

ErrorFrame == Frame("error", "", <<>>, <<>>, FALSE)

\* the request before its frame arrives
RequestInit ==
    /\ pc = "idle"
    /\ databaseAvailable \in BOOLEAN
    /\ configured \in BOOLEAN
    /\ reqConversationId \in {"", "L1"}
    /\ closedIn = ""
    /\ dbDifyId \in (IF databaseAvailable /\ reqConversationId # ""
                     THEN {"", "c1"} ELSE {""})
    /\ difyConversationId = ""
    /\ requestCid = ""
    /\ response = "none"
    /\ body = "none"
    /\ payload = NoLine
    /\ nread = 0
    /\ finalEventSeen = FALSE
    /\ dropped = 0
    /\ reported = <<"">>
    /\ fullResponse = <<>>
    /\ lastSent = <<>>
    /\ firstMessageSent = FALSE
    /\ isStreaming = TRUE
    /\ sent = <<>>
    /\ answerWrites = <<>>
    /\ inserts = <<>>
    /\ mockPos = 0
    /\ mockStarts = 0
    /\ inMemoryMessages = <<>>

\* no text is handed to processAIResponse on its own
NoPieces == pieces = <<>> /\ extracted = <<>>

\* no second request is in flight
NoPair == streams = <<>> /\ locals = <<>> /\ wire = <<>>

\* the body is read line by line, not as text
NoText ==
    /\ unread = <<>> /\ arrived = <<>> /\ buffer = <<>> /\ records = <<>>
    /\ carried = FALSE

\* one connection, and the one frame of the request
NoInbound == connections = <<>> /\ received = <<>>

\* no resolve-or-create is in flight
NoStores ==
    /\ users = {} /\ conversations = {}
    /\ inMemoryUsers = {} /\ inMemoryConversations = {}
    /\ resolving = <<>>

\* the endpoint loop is taken as one step
NoProbing == contacted = <<>>

\* the browser client is not part of the run
NoClient == client = <<>>

Init ==
    /\ RequestInit
    /\ NoPieces
    /\ NoPair
    /\ NoText
    /\ NoInbound
    /\ NoStores
    /\ NoProbing
    /\ NoClient

\* ws.send(JSON.stringify(frame)): what the connection has carried after it;
\* on a closed connection send() drops the frame and does not throw
Push(frame) == IF closedIn = "" THEN Append(sent, frame) ELSE sent

\* faulty variant: conversation_created is announced with the echo, before
\* callDifyAPI is awaited
HandleNewMessageAnnouncing ==
    /\ pc = "idle"
    /\ inserts' = IF databaseAvailable THEN Append(inserts, userMessageId) ELSE inserts
    /\ inMemoryMessages' = IF databaseAvailable THEN inMemoryMessages
                           ELSE Append(inMemoryMessages,
                                       [id |-> userMessageId, query |-> <<"q">>,
                                        answer |-> <<>>])
    /\ sent' = sent \o <<Frame("message", userMessageId, <<"q">>, <<>>, FALSE)>>
                    \o (IF reqConversationId = ""
                        THEN <<Frame("conversation_created", "", <<>>, <<>>, FALSE)>>
                        ELSE <<>>)
    /\ pc' = "call"
    /\ UNCHANGED <<databaseAvailable, configured, reqConversationId, closedIn,
                   pieces, extracted, streams, locals, wire, framing, inbound, detached,
                   session, response, body, loop, answerWrites, mock>>

\* handleNewMessage up to the call of callDifyAPI: the user turn is stored
\* with an empty answer and echoed
HandleNewMessage ==
    /\ pc = "idle"
    /\ inserts' = IF databaseAvailable THEN Append(inserts, userMessageId) ELSE inserts
    /\ inMemoryMessages' = IF databaseAvailable THEN inMemoryMessages
                           ELSE Append(inMemoryMessages,
                                       [id |-> userMessageId, query |-> <<"q">>,
                                        answer |-> <<>>])
    /\ sent' = Push(Frame("message", userMessageId, <<"q">>, <<>>, FALSE))
    /\ pc' = "call"
    /\ UNCHANGED <<databaseAvailable, configured, reqConversationId, closedIn,
                   pieces, extracted, streams, locals, wire, framing, inbound, detached,
                   session, response, body, loop, answerWrites, mock>>

\* await mockAIResponse(...): its first push happens in MockChar
EnterMock ==
    /\ pc' = "mock"
    /\ mockPos' = 0
    /\ mockStarts' = mockStarts + 1

\* callDifyAPI: if (!difyUrl || !apiKey) { await mockAIResponse(...); return; }
CallNotConfigured ==
    /\ pc = "call"
    /\ ~configured
    /\ EnterMock
    /\ UNCHANGED <<env, session, response, body, loop, sent, answerWrites, inserts>>

\* 1) read the dify_conversation_id cached for the local conversation
ReadSessionId ==
    /\ pc = "call"
    /\ configured
    /\ difyConversationId' = IF databaseAvailable THEN dbDifyId ELSE ""
    /\ pc' = "probe"
    /\ UNCHANGED <<env, dbDifyId, requestCid, response, body, loop, sent,
                   answerWrites, inserts, mock>>

\* 3) the endpoint loop: the response kept after trying the endpoints in
\* order; a throwing fetch leaves the response of an earlier endpoint, and
\* the body of a response that is neither OK nor a 404 is read for the log
RECURSIVE TryEndpoints(_, _, _)
TryEndpoints(outcome, i, kept) ==
    IF i \notin Endpoints THEN kept
    ELSE IF outcome[i] = "ok" THEN "ok"
    ELSE IF outcome[i] = "throw" THEN TryEndpoints(outcome, i + 1, kept)
    ELSE IF outcome[i] = "404" THEN TryEndpoints(outcome, i + 1, "notok")
    ELSE TryEndpoints(outcome, i + 1, "consumed")

ProbeEndpoints ==
    /\ pc = "probe"
    /\ \E outcome \in [Endpoints -> Outcomes] :
           response' = TryEndpoints(outcome, 1, "none")
    /\ requestCid' = difyConversationId
    /\ pc' = "probed"
    /\ UNCHANGED <<env, dbDifyId, difyConversationId, body, loop, sent,
                   answerWrites, inserts, mock>>

\* if (!response) ... / if (!response.ok) ...: an error frame, and return
ReplyUpstreamFailed ==
    /\ pc = "probed"
    /\ response \in {"none", "notok"}
    /\ sent' = Push(ErrorFrame)
    /\ pc' = "returned"
    /\ UNCHANGED <<env, session, response, body, loop, answerWrites, inserts, mock>>

\* if (!response.ok) { const bodyText = await response.text(); ... } on a
\* body the endpoint loop has read: node-fetch throws "body used already",
\* and the outer catch falls back to mockAIResponse
UpstreamBodyUsed ==
    /\ pc = "probed"
    /\ response = "consumed"
    /\ EnterMock
    /\ UNCHANGED <<env, session, response, body, loop, sent, answerWrites, inserts>>

BeginStream ==
    /\ pc = "probed"
    /\ response = "ok"
    /\ pc' = "stream"
    /\ body' = "open"
    /\ UNCHANGED <<env, session, response, loop, sent, answerWrites, inserts, mock>>

\* JSON.parse(payloadStr) returns
Decodes(line) == line.json

\* the fragment of an event: answer, else text, else data.outputs.answer,
\* else data.outputs.sys.answer
NewContent(data) ==
    IF data.answer # <<>> THEN data.answer
    ELSE IF data.text # <<>> THEN data.text
    ELSE IF data.outAnswer # <<>> THEN data.outAnswer
    ELSE data.sysAnswer

\* the event reports a conversation_id other than the one known
ReportsNewId(data, known) ==
    data.conversation_id # "" /\ data.conversation_id # known

\* faulty variant: the push no longer compares with the watermark
PushUnlessContinued(merged, watermark) == ~merged.cont

\* the push of the loop body is reached and finds the text changed
PushDue(merged, watermark) == ~merged.cont /\ merged.full # watermark

\* faulty variant: the parse error leaves the loop and reaches the outer catch
DropLineAbort ==
    /\ dropped' = dropped + 1
    /\ EnterMock
    /\ UNCHANGED <<dbDifyId, difyConversationId, finalEventSeen, reported,
                   fullResponse, lastSent, firstMessageSent, sent>>

\* JSON.parse throws: the catch of the loop body logs, the loop goes on
DropLine ==
    /\ dropped' = dropped + 1
    /\ UNCHANGED <<pc, dbDifyId, difyConversationId, finalEventSeen, reported,
                   fullResponse, lastSent, firstMessageSent, sent, mock>>

\* the loop body for a decoded event
HandleEvent(data) ==
    LET merged == MergeFragment(fullResponse, NewContent(data))
        processed == processAIResponse(merged.full)
    IN  /\ IF ReportsNewId(data, difyConversationId)
           THEN /\ difyConversationId' = data.conversation_id
                /\ dbDifyId' = IF databaseAvailable
                               THEN data.conversation_id ELSE dbDifyId
           ELSE UNCHANGED <<difyConversationId, dbDifyId>>
        /\ finalEventSeen' = (finalEventSeen \/ data.event = "message_end")
        /\ reported' = IF data.conversation_id # ""
                       THEN [reported EXCEPT ![Len(reported)] = data.conversation_id]
                       ELSE reported
        /\ fullResponse' = merged.full
        /\ IF PushDue(merged, lastSent)
           THEN /\ sent' = Push(StreamingMessage(assistantMessageId,
                                    processed.mainContent, processed.thinks, TRUE))
                /\ lastSent' = merged.full
                /\ firstMessageSent' = TRUE
           ELSE UNCHANGED <<sent, lastSent, firstMessageSent>>
        /\ UNCHANGED <<pc, dropped, mock>>

\* One line of the body through the loop body of callDifyAPI
ProcessLine(line) ==
    /\ pc = "stream"
    /\ nread < MaxRecords
    /\ nread' = nread + 1
    /\ payload' = line
    /\ IF Decodes(line) THEN HandleEvent(line) ELSE DropLine
    /\ UNCHANGED <<env, requestCid, response, body, isStreaming, answerWrites,
                   inserts>>

ReadLine == \E line \in Lines : ProcessLine(line)

\* faulty variant: the end of the stream finalizes whatever was accumulated
FinalizeAlways == TRUE

\* the end of the stream finalizes: `if (fullResponse && firstMessageSent)`
FinalizeDue == fullResponse # <<>> /\ firstMessageSent

\* end of stream, the final push
StreamEndFinal ==
    /\ pc = "stream"
    /\ FinalizeDue
    /\ LET processed == processAIResponse(fullResponse)
       IN  sent' = Push(StreamingMessage(assistantMessageId,
                               processed.mainContent, processed.thinks, FALSE))
    /\ body' = "ended"
    /\ pc' = IF databaseAvailable THEN "persist" ELSE "returned"
    /\ UNCHANGED <<env, session, response, loop, answerWrites, inserts, mock>>

\* faulty variant: the accumulated text is written as it is
AnswerWriteRaw(text) ==
    [id |-> userMessageId, answer |-> text, think |-> <<>>]

AnswerWrite(text) ==
    LET processed == processAIResponse(text)
    IN  [id |-> userMessageId, answer |-> processed.mainContent,
         think |-> processed.thinks]

\* faulty variant: answer and think are written by one UPDATE each
PersistAnswerTwice ==
    /\ pc = "persist"
    /\ answerWrites' = answerWrites \o <<AnswerWrite(fullResponse), AnswerWrite(fullResponse)>>
    /\ pc' = "returned"
    /\ UNCHANGED <<env, session, response, body, loop, sent, inserts, mock>>

\* faulty variant: the UPDATE is not guarded, its failure reaches the catch
\* of the stream loop, which falls back
PersistAnswerUncaught ==
    /\ pc = "persist"
    /\ EnterMock
    /\ UNCHANGED <<env, session, response, body, loop, sent, answerWrites, inserts>>

\* UPDATE messages SET answer = ?, think = ? WHERE id = userMessageId
PersistAnswer ==
    /\ pc = "persist"
    /\ answerWrites' = Append(answerWrites, AnswerWrite(fullResponse))
    /\ pc' = "returned"
    /\ UNCHANGED <<env, session, response, body, loop, sent, inserts, mock>>

\* end of stream with nothing to finalize: "fallback to mock if nothing"
StreamEndEmpty ==
    /\ pc = "stream"
    /\ ~FinalizeDue
    /\ body' = "ended"
    /\ EnterMock
    /\ UNCHANGED <<env, session, response, loop, sent, answerWrites, inserts>>

\* faulty variant: the catch saves what was accumulated before it falls back
StreamErrorPersists ==
    /\ pc = "stream"
    /\ body' = "failed"
    /\ EnterMock
    /\ answerWrites' = IF fullResponse # <<>>
                       THEN Append(answerWrites, AnswerWrite(fullResponse))
                       ELSE answerWrites
    /\ UNCHANGED <<env, session, response, loop, sent, inserts>>

\* reading response.body throws: catch (err) { await mockAIResponse(...) }
StreamError ==
    /\ pc = "stream"
    /\ body' = "failed"
    /\ EnterMock
    /\ UNCHANGED <<env, session, response, loop, sent, answerWrites, inserts>>

\* mockAIResponse: one push per character of the reply
MockChar ==
    /\ pc = "mock"
    /\ mockPos < Len(MockReply)
    /\ mockPos' = mockPos + 1
    /\ sent' = Push(StreamingMessage(mockMessageId,
                          SubSeq(MockReply, 1, mockPos + 1), <<>>, TRUE))
    /\ UNCHANGED <<pc, env, session, response, body, loop, answerWrites, inserts,
                   mockStarts>>

\* mockAIResponse after the loop: the final push, then the INSERT of its row
MockFinal ==
    /\ pc = "mock"
    /\ mockPos = Len(MockReply)
    /\ sent' = IF MockReply # <<>> /\ mockPos > 0
               THEN Push(StreamingMessage(mockMessageId, MockReply, <<>>, FALSE))
               ELSE sent
    /\ inserts' = IF databaseAvailable THEN Append(inserts, mockMessageId) ELSE inserts
    /\ pc' = "returned"
    /\ UNCHANGED <<env, session, response, body, loop, answerWrites, mock>>

\* handleNewMessage after callDifyAPI returned
FinishRequest ==
    /\ pc = "returned"
    /\ sent' = IF reqConversationId = ""
               THEN Push(Frame("conversation_created", "", <<>>, <<>>, FALSE))
               ELSE sent
    /\ pc' = "done"
    /\ UNCHANGED <<env, session, response, body, loop, answerWrites, inserts, mock>>

Next ==
    \/ HandleNewMessage
    \/ CallNotConfigured
    \/ ReadSessionId
    \/ ProbeEndpoints
    \/ ReplyUpstreamFailed
    \/ UpstreamBodyUsed
    \/ BeginStream
    \/ ReadLine
    \/ StreamEndFinal
    \/ PersistAnswer
    \/ StreamEndEmpty
    \/ StreamError
    \/ MockChar
    \/ MockFinal
    \/ FinishRequest

Spec == Init /\ [][Next]_vars

\* ------------------------------------------------------------------------
\* The request with a client that goes away: ws.on('close') only logs, the
\* handler of the request goes on
\* ------------------------------------------------------------------------

Disconnect ==
    /\ closedIn = ""
    /\ pc # "idle"
    /\ closedIn' = pc
    /\ UNCHANGED <<pc, databaseAvailable, configured, reqConversationId, apart,
                   session, response, body, loop, sent, answerWrites, inserts, mock>>

CloseNext == Next \/ Disconnect

SpecClose == Init /\ [][CloseNext]_vars

\* ------------------------------------------------------------------------
\* Requests of one conversation, one after the other
\* ------------------------------------------------------------------------

\* most requests of the conversation
MaxRequests == 2

\* the next new_message frame of the conversation arrives when the request
\* before it is done: it names the conversation, and its handler starts with
\* fresh locals; what the finished request sent and stored is left out
NextRequest ==
    /\ pc = "done"
    /\ Len(reported) < MaxRequests
    /\ pc' = "idle"
    /\ reqConversationId' = "L1"
    /\ reported' = Append(reported, "")
    /\ difyConversationId' = ""
    /\ requestCid' = ""
    /\ response' = "none"
    /\ body' = "none"
    /\ payload' = NoLine
    /\ nread' = 0
    /\ finalEventSeen' = FALSE
    /\ dropped' = 0
    /\ fullResponse' = <<>>
    /\ lastSent' = <<>>
    /\ firstMessageSent' = FALSE
    /\ sent' = <<>>
    /\ answerWrites' = <<>>
    /\ inserts' = <<>>
    /\ mockPos' = 0
    /\ mockStarts' = 0
    /\ UNCHANGED <<databaseAvailable, configured, closedIn, apart, dbDifyId,
                   isStreaming>>

SeqNext == Next \/ NextRequest

SpecSeq == Init /\ [][SeqNext]_vars

\* ------------------------------------------------------------------------
\* The same request handled by websocket_server.js
\* ------------------------------------------------------------------------

WsInit ==
    /\ Init
    /\ configured
    /\ dbDifyId = ""

\* handleNewMessage up to the call of callDifyAPI
WsHandleNewMessage ==
    /\ pc = "idle"
    /\ inserts' = IF databaseAvailable THEN Append(inserts, userMessageId) ELSE inserts
    /\ sent' = Append(sent, Frame("message", userMessageId, <<"q">>, <<>>, FALSE))
    /\ pc' = "probe"
    /\ UNCHANGED <<env, session, response, body, loop, answerWrites, mock>>

\* the endpoint loop: per endpoint a request without conversation_id and,
\* after a 404, one with it; a throwing fetch goes on to the next endpoint
\* with the response kept so far, a 404 goes on, anything else breaks
RECURSIVE WsTryEndpoints(_, _, _, _)
WsTryEndpoints(first, second, i, kept) ==
    IF i \notin Endpoints THEN kept
    ELSE IF first[i] = "throw" THEN WsTryEndpoints(first, second, i + 1, kept)
    ELSE IF first[i] = "ok" THEN "ok"
    ELSE IF first[i] = "404"
    THEN IF second[i] = "ok" THEN "ok"
         ELSE IF second[i] = "500" THEN "notok"
         ELSE WsTryEndpoints(first, second, i + 1, "notok")
    ELSE "notok"

WsProbeEndpoints ==
    /\ pc = "probe"
    /\ \E first \in [Endpoints -> Outcomes] : \E second \in [Endpoints -> Outcomes] :
           response' = WsTryEndpoints(first, second, 1, "none")
    /\ pc' = "probed"
    /\ UNCHANGED <<env, session, body, loop, sent, answerWrites, inserts, mock>>

\* if (!response) { console.error(...); return; }
WsNoResponse ==
    /\ pc = "probed"
    /\ response = "none"
    /\ pc' = "returned"
    /\ UNCHANGED <<env, session, response, body, loop, sent, answerWrites, inserts,
                   mock>>

\* if (!response.ok) { ... ws.send({type: 'error', ...}); return; }
WsReplyNotOk ==
    /\ pc = "probed"
    /\ response = "notok"
    /\ sent' = Append(sent, ErrorFrame)
    /\ pc' = "returned"
    /\ UNCHANGED <<env, session, response, body, loop, answerWrites, inserts, mock>>

WsBeginStream ==
    /\ pc = "probed"
    /\ response = "ok"
    /\ pc' = "stream"
    /\ body' = "open"
    /\ UNCHANGED <<env, session, response, loop, sent, answerWrites, inserts, mock>>

\* the text a node_finished event adds: data.outputs.answer, else
\* data.outputs.sys.answer
WsNodeAnswer(data) ==
    IF data.outAnswer # <<>> THEN data.outAnswer ELSE data.sysAnswer

\* switch (data.event) of the loop body
WsHandleEvent(data) ==
    /\ finalEventSeen' = (finalEventSeen \/ data.event = "message_end")
    /\ IF data.event = "message" /\ data.answer # <<>>
       THEN /\ fullResponse' = fullResponse \o data.answer
            /\ sent' = Append(sent, StreamingMessage(assistantMessageId,
                                  fullResponse', <<>>, TRUE))
            /\ UNCHANGED <<isStreaming, inserts>>
       ELSE IF data.event = "message_end"
       THEN /\ fullResponse' = fullResponse \o data.answer
            /\ sent' = Append(sent, StreamingMessage(assistantMessageId,
                                  fullResponse', <<>>, FALSE))
            /\ inserts' = IF databaseAvailable
                          THEN Append(inserts, assistantMessageId) ELSE inserts
            /\ isStreaming' = FALSE
       ELSE IF data.event = "node_finished" /\ WsNodeAnswer(data) # <<>>
       THEN /\ fullResponse' = fullResponse \o WsNodeAnswer(data)
            /\ sent' = Append(sent, StreamingMessage(assistantMessageId,
                                  fullResponse', <<>>, TRUE))
            /\ UNCHANGED <<isStreaming, inserts>>
       ELSE UNCHANGED <<fullResponse, sent, isStreaming, inserts>>
    /\ UNCHANGED dropped

\* One line of the body through the loop body of callDifyAPI: only a line
\* that starts with 'data: ' is looked at
WsProcessLine(line) ==
    /\ pc = "stream"
    /\ nread < MaxRecords
    /\ nread' = nread + 1
    /\ payload' = line
    /\ IF line.prefixed /\ Decodes(line) THEN WsHandleEvent(line)
       ELSE /\ dropped' = IF line.prefixed THEN dropped + 1 ELSE dropped
            /\ UNCHANGED <<finalEventSeen, fullResponse, sent, isStreaming, inserts>>
    /\ UNCHANGED <<pc, env, session, response, body, reported, lastSent,
                   firstMessageSent, answerWrites, mock>>

WsReadLine == \E line \in Lines : WsProcessLine(line)

\* after the loop, with an answer: the final push and the INSERT unless a
\* message_end made them
WsStreamEndAnswer ==
    /\ pc = "stream"
    /\ fullResponse # <<>>
    /\ body' = "ended"
    /\ IF isStreaming
       THEN /\ sent' = Append(sent, StreamingMessage(assistantMessageId,
                                  fullResponse, <<>>, FALSE))
            /\ inserts' = IF databaseAvailable
                          THEN Append(inserts, assistantMessageId) ELSE inserts
       ELSE UNCHANGED <<sent, inserts>>
    /\ pc' = "returned"
    /\ UNCHANGED <<env, session, response, loop, answerWrites, mock>>

\* after the loop, without an answer: if (!fullResponse) mockAIResponse
WsStreamEndEmpty ==
    /\ pc = "stream"
    /\ fullResponse = <<>>
    /\ body' = "ended"
    /\ EnterMock
    /\ UNCHANGED <<env, session, response, loop, sent, answerWrites, inserts>>

\* reading response.body throws: catch (error) { await mockAIResponse(...) }
WsStreamError ==
    /\ pc = "stream"
    /\ body' = "failed"
    /\ EnterMock
    /\ UNCHANGED <<env, session, response, loop, sent, answerWrites, inserts>>

\* mockAIResponse of websocket_server.js: one push per character
WsMockChar ==
    /\ pc = "mock"
    /\ mockPos < Len(MockReply)
    /\ mockPos' = mockPos + 1
    /\ sent' = Append(sent, StreamingMessage(mockMessageId,
                          SubSeq(MockReply, 1, mockPos + 1), <<>>, TRUE))
    /\ UNCHANGED <<pc, env, session, response, body, loop, answerWrites, inserts,
                   mockStarts>>

\* mockAIResponse after the loop: the final push and the INSERT of its row
WsMockFinal ==
    /\ pc = "mock"
    /\ mockPos = Len(MockReply)
    /\ sent' = Append(sent, StreamingMessage(mockMessageId, MockReply, <<>>, FALSE))
    /\ inserts' = IF databaseAvailable THEN Append(inserts, mockMessageId) ELSE inserts
    /\ pc' = "returned"
    /\ UNCHANGED <<env, session, response, body, loop, answerWrites, mock>>

\* handleNewMessage after callDifyAPI returned
WsFinishRequest ==
    /\ pc = "returned"
    /\ sent' = IF reqConversationId = ""
               THEN Append(sent, Frame("conversation_created", "", <<>>, <<>>, FALSE))
               ELSE sent
    /\ pc' = "done"
    /\ UNCHANGED <<env, session, response, body, loop, answerWrites, inserts, mock>>

WsNext ==
    \/ WsHandleNewMessage
    \/ WsProbeEndpoints
    \/ WsNoResponse
    \/ WsReplyNotOk
    \/ WsBeginStream
    \/ WsReadLine
    \/ WsStreamEndAnswer
    \/ WsStreamEndEmpty
    \/ WsStreamError
    \/ WsMockChar
    \/ WsMockFinal
    \/ WsFinishRequest

SpecWS == WsInit /\ [][WsNext]_vars

\* ------------------------------------------------------------------------
\* processAIResponse on its own: texts put together from a few pieces
\* ------------------------------------------------------------------------

\* most pieces of one text
MaxPieces == 4

Plain == { <<"s">>, <<"A">>, <<" ">> }

\* a complete segment in one piece
Whole == { OPEN \o <<"s">> \o CLOSE, OPEN \o <<" ", "A">> \o CLOSE }

\* the head of a start marker and the tail of either marker
Cut == { <<"<", "t", "h", "i">>, <<"n", "k", ">">> }

Pieces == Plain \cup Whole \cup Cut \cup { OPEN, CLOSE }

RECURSIVE Concat(_)
Concat(ps) == IF ps = <<>> THEN <<>> ELSE Head(ps) \o Concat(Tail(ps))

ExtractInit ==
    /\ RequestInit
    /\ ~databaseAvailable /\ ~configured /\ reqConversationId = ""
    /\ pieces \in UNION { [1..n -> Pieces] : n \in 0..MaxPieces }
    /\ extracted = <<>>
    /\ NoPair
    /\ NoText
    /\ NoInbound
    /\ NoStores
    /\ NoProbing
    /\ NoClient

\* const processed = processAIResponse(fullResponse)
Extract ==
    /\ extracted = <<>>
    /\ extracted' = <<processAIResponse(Concat(pieces))>>
    /\ UNCHANGED <<pc, databaseAvailable, configured, reqConversationId, closedIn,
                   session, response, body, loop, sent, answerWrites, inserts, mock,
                   pieces, streams, locals, wire, framing, inMemoryMessages,
                   inbound, detached>>

ExtractNext == Extract

SpecExtract == ExtractInit /\ [][ExtractNext]_vars

\* ------------------------------------------------------------------------
\* Two new_message requests in flight: the handlers of ws.on('message') are
\* async, so the loop bodies of two calls of callDifyAPI interleave at every
\* await
\* ------------------------------------------------------------------------

\* most lines of the body of each of the two requests
MaxPairRecords == 2

Requests == 1..2

PairLines ==
    { Message("c2", tA), Message("", tAB), Event("text_chunk", "", <<>>, tB, <<>>, <<>>) }

\* const assistantMessageId = uuidv4()
AssistantId(r) == IF r = 1 THEN "a1" ELSE "a2"

\* let fullResponse = ''; let lastSent = ''; let firstMessageSent = false
Fresh == [fullResponse |-> <<>>, lastSent |-> <<>>, firstMessageSent |-> FALSE]

\* faulty variant: the three are variables of the module, one for all calls
SharedActivation(r) == 1

\* the activation that holds the locals of request r: one for each call
Activation(r) == r

\* the loop body on the locals l: the locals after it and whether it pushed
LoopBody(l, line) ==
    IF ~Decodes(line) THEN [locals |-> l, push |-> FALSE]
    ELSE LET merged == MergeFragment(l.fullResponse, NewContent(line))
             push == PushDue(merged, l.lastSent)
         IN  [locals |-> [fullResponse |-> merged.full,
                          lastSent |-> IF push THEN merged.full ELSE l.lastSent,
                          firstMessageSent |-> (l.firstMessageSent \/ push)],
              push |-> push]

\* the streaming_message of request r for the accumulated text
PushOf(r, text, streaming) ==
    StreamingMessage(AssistantId(r), processAIResponse(text).mainContent,
                     processAIResponse(text).thinks, streaming)

PairInit ==
    /\ RequestInit
    /\ ~databaseAvailable /\ configured /\ reqConversationId = ""
    /\ NoPieces
    /\ \E ws \in Requests :
           streams = [r \in Requests |->
                         [pc |-> "idle", ws |-> IF r = 1 THEN 1 ELSE ws, fed |-> <<>>]]
    /\ locals = [r \in Requests |-> Fresh]
    /\ wire = [ws \in Requests |-> <<>>]
    /\ NoText
    /\ NoInbound
    /\ NoStores
    /\ NoProbing
    /\ NoClient

request == <<pc, databaseAvailable, configured, reqConversationId, closedIn, session,
             response, body, loop, sent, answerWrites, inserts, mock, pieces,
             extracted, framing, inMemoryMessages, inbound, detached>>

\* callDifyAPI is entered and reaches the loop
PairStart(r) ==
    /\ streams[r].pc = "idle"
    /\ streams' = [streams EXCEPT ![r].pc = "stream"]
    /\ locals' = [locals EXCEPT ![Activation(r)] = Fresh]
    /\ UNCHANGED <<request, wire>>

\* one line of the body of request r through the loop body
PairReadLine(r, line) ==
    LET after == LoopBody(locals[Activation(r)], line)
    IN  /\ streams[r].pc = "stream"
        /\ Len(streams[r].fed) < MaxPairRecords
        /\ streams' = [streams EXCEPT ![r].fed = Append(@, line)]
        /\ locals' = [locals EXCEPT ![Activation(r)] = after.locals]
        /\ wire' = IF after.push
                   THEN [wire EXCEPT ![streams[r].ws] =
                            Append(@, PushOf(r, after.locals.fullResponse, TRUE))]
                   ELSE wire
        /\ UNCHANGED request

\* the end of the body of request r: the final push, or the hand-over to
\* mockAIResponse, which has locals and a message id of its own
PairEnd(r) ==
    LET l == locals[Activation(r)]
    IN  /\ streams[r].pc = "stream"
        /\ IF l.fullResponse # <<>> /\ l.firstMessageSent
           THEN /\ wire' = [wire EXCEPT ![streams[r].ws] =
                               Append(@, PushOf(r, l.fullResponse, FALSE))]
                /\ streams' = [streams EXCEPT ![r].pc = "returned"]
           ELSE /\ wire' = wire
                /\ streams' = [streams EXCEPT ![r].pc = "mock"]
        /\ UNCHANGED <<request, locals>>

PairNext ==
    \E r \in Requests :
        \/ PairStart(r)
        \/ \E line \in PairLines : PairReadLine(r, line)
        \/ PairEnd(r)

SpecPair == PairInit /\ [][PairNext]_vars

\* ------------------------------------------------------------------------
\* The body as text: server.js, callDifyAPI, 4) from the chunks of
\* response.body to the lines handed to the loop body
\* ------------------------------------------------------------------------

\* longest body, in tokens
MaxBody == 5

NL == "\n"

DataPrefix == "data: "

\* the two halves of the object {"conversation_id":"c2","answer":"a"}
jHead == "{\"conversation_id\":\"c2\",\"answer\":"

jTail == "\"a\"}"

\* the object {"event":"text_chunk","text":"b"}
jText == "{\"event\":\"text_chunk\",\"text\":\"b\"}"

\* a body is text over these tokens, and a chunk ends between two of them
Tokens == { NL, DataPrefix, jHead, jTail, jText }

Bodies == UNION { [1..n -> Tokens] : n \in 0..MaxBody }

\* line.startsWith('data: ')
StartsWithData(line) == line # <<>> /\ Head(line) = DataPrefix

\* faulty variant: a line without the prefix has no payload
PayloadOfPrefixed(line) == IF StartsWithData(line) THEN Tail(line) ELSE <<>>

\* const payloadStr = line.startsWith('data: ') ? line.slice(6) : line
PayloadStr(line) == IF StartsWithData(line) THEN Tail(line) ELSE line

\* JSON.parse(payloadStr): the object, or json FALSE when it throws
JSONParse(prefixed, payloadStr) ==
    IF payloadStr = <<jHead, jTail>>
    THEN Line(prefixed, TRUE, "", "c2", tA, <<>>, <<>>, <<>>)
    ELSE IF payloadStr = <<jText>>
    THEN Line(prefixed, TRUE, "text_chunk", "", <<>>, tB, <<>>, <<>>)
    ELSE Line(prefixed, FALSE, "", "", <<>>, <<>>, <<>>, <<>>)

\* a trimmed, non-blank line as the loop body sees it
ParseLine(line) == JSONParse(StartsWithData(line), PayloadStr(line))

\* faulty variant: every chunk is cut into lines on its own
CarryNothing(held, chunk) == chunk

\* buffer += decoder.decode(chunk, { stream: true })
Carry(held, chunk) == held \o chunk

\* the loop is entered: the response is OK, the user turn stored and echoed
TextInit ==
    /\ pc = "stream"
    /\ databaseAvailable = TRUE
    /\ configured = TRUE
    /\ reqConversationId = "L1"
    /\ closedIn = ""
    /\ dbDifyId = ""
    /\ difyConversationId = ""
    /\ requestCid = ""
    /\ response = "ok"
    /\ body = "open"
    /\ payload = NoLine
    /\ nread = 0
    /\ finalEventSeen = FALSE
    /\ dropped = 0
    /\ reported = <<"">>
    /\ fullResponse = <<>>
    /\ lastSent = <<>>
    /\ firstMessageSent = FALSE
    /\ isStreaming = TRUE
    /\ sent = <<Frame("message", userMessageId, <<"q">>, <<>>, FALSE)>>
    /\ answerWrites = <<>>
    /\ inserts = <<userMessageId>>
    /\ mockPos = 0
    /\ mockStarts = 0
    /\ NoPieces
    /\ NoPair
    /\ unread \in Bodies
    /\ arrived = <<>>
    /\ buffer = <<>>
    /\ records = <<>>
    /\ carried = FALSE
    /\ inMemoryMessages = <<>>
    /\ NoInbound
    /\ NoStores
    /\ NoProbing
    /\ NoClient

settled == <<databaseAvailable, configured, reqConversationId, closedIn, pieces,
             extracted, streams, locals, wire, requestCid, response, body,
             isStreaming, answerWrites, inserts, inMemoryMessages, inbound,
             detached>>

\* for await (const chunk of response.body): the next n tokens arrive
ReadChunk(n) ==
    /\ pc = "stream"
    /\ ~Includes(buffer, <<NL>>)
    /\ n \in 1..Len(unread)
    /\ buffer' = Carry(buffer, SubSeq(unread, 1, n))
    /\ arrived' = arrived \o SubSeq(unread, 1, n)
    /\ unread' = Slice(unread, n)
    /\ carried' = (carried \/ buffer # <<>>)
    /\ UNCHANGED <<settled, pc, session, loop, sent, mock, records>>

\* one turn of while ((newlineIndex = buffer.indexOf('\n')) !== -1)
TakeLine ==
    LET newlineIndex == IndexOf(buffer, <<NL>>, 1)
        line == Trim(SubSeq(buffer, 1, newlineIndex - 1))
    IN  /\ pc = "stream"
        /\ newlineIndex # 0
        /\ buffer' = Slice(buffer, newlineIndex)
        /\ IF line = <<>>
           THEN UNCHANGED <<pc, dbDifyId, difyConversationId, loop, sent, mock,
                            records>>
           ELSE /\ records' = Append(records, line)
                /\ payload' = ParseLine(line)
                /\ nread' = nread + 1
                /\ IF Decodes(ParseLine(line))
                   THEN HandleEvent(ParseLine(line))
                   ELSE DropLine
        /\ UNCHANGED <<settled, unread, arrived, carried>>

\* the body ended: what is left in the buffer is not looked at
TextEndFinal ==
    /\ unread = <<>>
    /\ ~Includes(buffer, <<NL>>)
    /\ StreamEndFinal

TextEndEmpty ==
    /\ unread = <<>>
    /\ ~Includes(buffer, <<NL>>)
    /\ StreamEndEmpty

TextNext ==
    \/ \E n \in 1..MaxBody : ReadChunk(n)
    \/ TakeLine
    \/ TextEndFinal
    \/ TextEndEmpty

SpecText == TextInit /\ [][TextNext]_vars

\* ------------------------------------------------------------------------
\* The frames that come in: server.js, wss.on('connection') and the dispatch
\* of ws.on('message'), without the database and without an upstream service
\* ------------------------------------------------------------------------

\* most frames that come in, on all connections together
MaxInbound == 4

Sockets == 1..2

TotalReceived == Len(received[1]) + Len(received[2])

\* handleGetMessages, in-memory fallback: a user entry for each record with
\* a query, an assistant entry for each record with an answer
RECURSIVE FormattedMessages(_)
FormattedMessages(messages) ==
    IF messages = <<>> THEN <<>>
    ELSE LET m == Head(messages)
         IN  (IF m.query # <<>>
              THEN <<[id |-> m.id, role |-> "user", content |-> m.query]>>
              ELSE <<>>)
             \o (IF m.answer # <<>>
                 THEN <<[id |-> m.id, role |-> "assistant", content |-> m.answer]>>
                 ELSE <<>>)
             \o FormattedMessages(Tail(messages))

\* mockAIResponse: a push for every character, then the final push
MockFrames ==
    [i \in 1..Len(MockReply) |->
        StreamingMessage(mockMessageId, SubSeq(MockReply, 1, i), <<>>, TRUE)]
    \o <<StreamingMessage(mockMessageId, MockReply, <<>>, FALSE)>>

\* faulty variant: the catch of the dispatch closes the connection
CloseOnError(connection) == [connection EXCEPT !.state = "closed"]

\* the catch of the dispatch: it logs and sends, the connection is left alone
OnError(connection) == connection

InboundInit ==
    /\ RequestInit
    /\ ~databaseAvailable /\ ~configured /\ reqConversationId = ""
    /\ NoPieces
    /\ streams = <<>> /\ locals = <<>>
    /\ NoText
    /\ wire = [ws \in Sockets |-> <<>>]
    /\ connections = [ws \in Sockets |-> [state |-> "none", awaiting |-> FALSE]]
    /\ received = [ws \in Sockets |-> <<>>]
    /\ NoStores
    /\ NoProbing
    /\ NoClient

handlers == <<pc, databaseAvailable, configured, reqConversationId, closedIn,
              session, response, body, loop, sent, answerWrites, inserts, mock,
              pieces, extracted, streams, locals, framing, detached>>

\* wss.on('connection'): the welcome frame
Connect(ws) ==
    /\ connections[ws].state = "none"
    /\ connections' = [connections EXCEPT ![ws].state = "open"]
    /\ wire' = [wire EXCEPT ![ws] = Append(@, Frame("welcome", "", <<>>, <<>>, FALSE))]
    /\ UNCHANGED <<handlers, inMemoryMessages, received>>

\* a frame of the kind comes in on an open connection; to the dispatch a
\* frame is text that is not JSON ("garbage"), an object of an unknown type,
\* a get_messages request or a new_message request
Receives(ws, kind) ==
    /\ connections[ws].state = "open"
    /\ TotalReceived < MaxInbound
    /\ received' = [received EXCEPT ![ws] = Append(@, kind)]

\* JSON.parse(message) throws: the catch sends an error frame
ReceiveGarbage(ws) ==
    /\ Receives(ws, "garbage")
    /\ wire' = [wire EXCEPT ![ws] = Append(@, ErrorFrame)]
    /\ connections' = [connections EXCEPT ![ws] = OnError(@)]
    /\ UNCHANGED <<handlers, inMemoryMessages>>

\* default: console.log('Unknown message type:', data.type)
ReceiveUnknown(ws) ==
    /\ Receives(ws, "unknown")
    /\ UNCHANGED <<handlers, inMemoryMessages, wire, connections>>

\* handleGetMessages
ReceiveGetMessages(ws) ==
    /\ Receives(ws, "get_messages")
    /\ wire' = [wire EXCEPT ![ws] =
                   Append(@, Frame("messages", "", FormattedMessages(inMemoryMessages),
                                   <<>>, FALSE))]
    /\ UNCHANGED <<handlers, inMemoryMessages, connections>>

\* handleNewMessage up to the first await of mockAIResponse: the user turn
\* is stored and echoed
ReceiveNewMessage(ws) ==
    /\ Receives(ws, "new_message")
    /\ ~connections[ws].awaiting
    /\ inMemoryMessages' = Append(inMemoryMessages,
                                  [id |-> userMessageId, query |-> <<"q">>,
                                   answer |-> <<>>])
    /\ wire' = [wire EXCEPT ![ws] =
                   Append(@, Frame("message", userMessageId, <<"q">>, <<>>, FALSE))]
    /\ connections' = [connections EXCEPT ![ws].awaiting = TRUE]
    /\ UNCHANGED handlers

\* the rest of the handler: the frames of mockAIResponse, taken together,
\* and conversation_created; on a closed connection send() drops them
ReplyNewMessage(ws) ==
    /\ connections[ws].awaiting
    /\ connections' = [connections EXCEPT ![ws].awaiting = FALSE]
    /\ wire' = IF connections[ws].state = "open"
               THEN [wire EXCEPT ![ws] =
                        @ \o MockFrames
                          \o <<Frame("conversation_created", "", <<>>, <<>>, FALSE)>>]
               ELSE wire
    /\ UNCHANGED <<handlers, inMemoryMessages, received>>

\* the client closes the connection: ws.on('close') logs
CloseSocket(ws) ==
    /\ connections[ws].state = "open"
    /\ connections' = [connections EXCEPT ![ws].state = "closed"]
    /\ UNCHANGED <<handlers, inMemoryMessages, received, wire>>

InboundNext ==
    \E ws \in Sockets :
        \/ Connect(ws)
        \/ ReceiveGarbage(ws)
        \/ ReceiveUnknown(ws)
        \/ ReceiveGetMessages(ws)
        \/ ReceiveNewMessage(ws)
        \/ ReplyNewMessage(ws)
        \/ CloseSocket(ws)

SpecInbound == InboundInit /\ [][InboundNext]_vars

\* ------------------------------------------------------------------------
\* Two handleNewMessage calls at createUserIfNotExists and
\* createConversationIfNotExists; a step ends at an await of pool.query
\* ------------------------------------------------------------------------

\* data.userId of a request (36 characters, so it is kept)
UserIds == { "ua", "ub" }

\* data.conversationId of a request: absent, or a named conversation
ConversationIds == { "", "c1" }

NoRecord == [store |-> "none", id |-> "", user_id |-> ""]

\* a row of a table
Row(id, owner) == [store |-> "db", id |-> id, user_id |-> owner]

\* a value of a Map
Entry(id, owner) == [store |-> "memory", id |-> id, user_id |-> owner]

\* conversationId || uuidv4(): the uuid of request r
NewConversationId(r) ==
    IF resolving[r].conversationId # "" THEN resolving[r].conversationId
    ELSE IF r = 1 THEN "n1" ELSE "n2"

WithId(rows, id) == { row \in rows : row.id = id }

ResolveInit ==
    /\ RequestInit
    /\ ~configured /\ reqConversationId = ""
    /\ NoPieces
    /\ NoPair
    /\ NoText
    /\ NoInbound
    /\ NoProbing
    /\ NoClient
    /\ users = {} /\ conversations = {}
    /\ inMemoryUsers = {} /\ inMemoryConversations = {}
    /\ resolving \in [Requests -> [pc : {"user"}, userId : UserIds,
                                   conversationId : ConversationIds,
                                   user : {NoRecord}, conversation : {NoRecord}]]

resolved == <<pc, databaseAvailable, configured, reqConversationId, closedIn,
              session, response, body, loop, sent, answerWrites, inserts, mock,
              pieces, extracted, streams, locals, wire, framing,
              inMemoryMessages, inbound, contacted, client>>

\* if (!inMemoryUsers.has(userId)) inMemoryUsers.set(userId, {...});
\* user = inMemoryUsers.get(userId)
UserFromMemory(r) ==
    LET userId == resolving[r].userId
    IN  /\ inMemoryUsers' = IF WithId(inMemoryUsers, userId) = {}
                            THEN inMemoryUsers \cup {Entry(userId, "")}
                            ELSE inMemoryUsers
        /\ resolving' = [resolving EXCEPT ![r].user = Entry(userId, ""),
                                          ![r].pc = "conversation"]

\* createUserIfNotExists with the database: SELECT * FROM users WHERE id = ?
SelectUser(r) ==
    /\ resolving[r].pc = "user"
    /\ databaseAvailable
    /\ resolving' = IF WithId(users, resolving[r].userId) = {}
                    THEN [resolving EXCEPT ![r].pc = "insertUser"]
                    ELSE [resolving EXCEPT ![r].user = Row(resolving[r].userId, ""),
                                           ![r].pc = "conversation"]
    /\ UNCHANGED <<resolved, users, conversations, inMemoryUsers, inMemoryConversations>>

\* INSERT INTO users and the SELECT of the new row; id is the primary key, a
\* second row of the id fails the INSERT and the catch falls back to memory
InsertUser(r) ==
    /\ resolving[r].pc = "insertUser"
    /\ IF WithId(users, resolving[r].userId) # {}
       THEN UserFromMemory(r) /\ UNCHANGED users
       ELSE /\ users' = users \cup {Row(resolving[r].userId, "")}
            /\ resolving' = [resolving EXCEPT ![r].user = Row(resolving[r].userId, ""),
                                              ![r].pc = "conversation"]
            /\ UNCHANGED inMemoryUsers
    /\ UNCHANGED <<resolved, conversations, inMemoryConversations>>

\* createUserIfNotExists without the database
UserInMemory(r) ==
    /\ resolving[r].pc = "user"
    /\ ~databaseAvailable
    /\ UserFromMemory(r)
    /\ UNCHANGED <<resolved, users, conversations, inMemoryConversations>>

\* if (conversationId && inMemoryConversations.has(conversationId)) get it,
\* else set a new entry
ConversationFromMemory(r) ==
    LET conversationId == resolving[r].conversationId
        found == WithId(inMemoryConversations, conversationId)
        conversation == Entry(NewConversationId(r), resolving[r].user.id)
    IN  IF conversationId # "" /\ found # {}
        THEN /\ resolving' = [resolving EXCEPT
                                 ![r].conversation = CHOOSE e \in found : TRUE,
                                 ![r].pc = "resolved"]
             /\ UNCHANGED inMemoryConversations
        ELSE /\ inMemoryConversations' =
                    (inMemoryConversations \ WithId(inMemoryConversations, conversation.id))
                    \cup {conversation}
             /\ resolving' = [resolving EXCEPT ![r].conversation = conversation,
                                               ![r].pc = "resolved"]

\* createConversationIfNotExists with the database: the SELECT by id, made
\* when the request named a conversation
SelectConversation(r) ==
    LET found == WithId(conversations, resolving[r].conversationId)
    IN  /\ resolving[r].pc = "conversation"
        /\ databaseAvailable
        /\ resolving' = IF resolving[r].conversationId # "" /\ found # {}
                        THEN [resolving EXCEPT
                                 ![r].conversation = CHOOSE row \in found : TRUE,
                                 ![r].pc = "resolved"]
                        ELSE [resolving EXCEPT ![r].pc = "insertConversation"]
        /\ UNCHANGED <<resolved, users, conversations, inMemoryUsers,
                       inMemoryConversations>>

\* INSERT INTO conversations and the SELECT of the new row; id is the
\* primary key, a second row of the id fails the INSERT and the catch falls
\* back to memory
InsertConversation(r) ==
    LET conversation == Row(NewConversationId(r), resolving[r].user.id)
    IN  /\ resolving[r].pc = "insertConversation"
        /\ IF WithId(conversations, conversation.id) # {}
           THEN ConversationFromMemory(r) /\ UNCHANGED conversations
           ELSE /\ conversations' = conversations \cup {conversation}
                /\ resolving' = [resolving EXCEPT ![r].conversation = conversation,
                                                  ![r].pc = "resolved"]
                /\ UNCHANGED inMemoryConversations
        /\ UNCHANGED <<resolved, users, inMemoryUsers>>

\* createConversationIfNotExists without the database
ConversationInMemory(r) ==
    /\ resolving[r].pc = "conversation"
    /\ ~databaseAvailable
    /\ ConversationFromMemory(r)
    /\ UNCHANGED <<resolved, users, conversations, inMemoryUsers>>

ResolveNext ==
    \E r \in Requests :
        \/ SelectUser(r)
        \/ InsertUser(r)
        \/ UserInMemory(r)
        \/ SelectConversation(r)
        \/ InsertConversation(r)
        \/ ConversationInMemory(r)

SpecResolve == ResolveInit /\ [][ResolveNext]_vars

\* ------------------------------------------------------------------------
\* The endpoint loop of callDifyAPI, one fetch at a step
\* ------------------------------------------------------------------------

\* the response kept after the fetch of an endpoint came to the outcome
Kept(outcome, kept) ==
    IF outcome = "ok" THEN "ok"
    ELSE IF outcome = "throw" THEN kept
    ELSE IF outcome = "404" THEN "notok"
    ELSE "consumed"

\* for (const endpoint of endpoints) { response = await fetch(...); ... }:
\* one iteration; `if (response.ok) break` ends the loop
ContactEndpoint ==
    /\ pc = "probe"
    /\ response # "ok"
    /\ Len(contacted) + 1 \in Endpoints
    /\ \E outcome \in Outcomes :
           /\ contacted' = Append(contacted, [endpoint |-> Len(contacted) + 1,
                                              outcome |-> outcome])
           /\ response' = Kept(outcome, response)
    /\ UNCHANGED <<pc, databaseAvailable, configured, reqConversationId, closedIn,
                   session, body, loop, sent, answerWrites, inserts, mock, pieces,
                   extracted, streams, locals, wire, framing, inMemoryMessages,
                   inbound, stores, client>>

\* the loop is left: by the break or after the last endpoint
LeaveEndpointLoop ==
    /\ pc = "probe"
    /\ response = "ok" \/ Len(contacted) + 1 \notin Endpoints
    /\ requestCid' = difyConversationId
    /\ pc' = "probed"
    /\ UNCHANGED <<env, dbDifyId, difyConversationId, response, body, loop, sent,
                   answerWrites, inserts, mock>>

ProbeInit == Init /\ configured

ProbeNext ==
    \/ HandleNewMessage
    \/ ReadSessionId
    \/ ContactEndpoint
    \/ LeaveEndpointLoop
    \/ ReplyUpstreamFailed
    \/ UpstreamBodyUsed
    \/ BeginStream
    \/ MockChar
    \/ MockFinal
    \/ FinishRequest

SpecProbe == ProbeInit /\ [][ProbeNext]_vars

\* ------------------------------------------------------------------------
\* App.jsx: the effect that connects, reconnects and is cleaned up
\* ------------------------------------------------------------------------

maxReconnectAttempts == 5

\* calls of connect() in a run
MaxConnects == 7

\* after the effect ran: `connect()` was called once
ClientInit ==
    /\ RequestInit
    /\ ~databaseAvailable /\ ~configured /\ reqConversationId = ""
    /\ NoPieces
    /\ NoPair
    /\ NoText
    /\ NoInbound
    /\ NoStores
    /\ NoProbing
    /\ client = [wsInstance |-> "connecting", reconnectAttempts |-> 0,
                 reconnectTimeoutId |-> FALSE, cleanedUp |-> FALSE,
                 connects |-> 1, connectsAfterCleanup |-> 0]

serverSide == <<pc, databaseAvailable, configured, reqConversationId, closedIn,
                session, response, body, loop, sent, answerWrites, inserts, mock,
                pieces, extracted, streams, locals, wire, framing,
                inMemoryMessages, inbound, stores, contacted>>

\* wsInstance.onopen: reconnectAttempts = 0
OnOpen ==
    /\ client.wsInstance = "connecting"
    /\ client' = [client EXCEPT !.wsInstance = "open", !.reconnectAttempts = 0]
    /\ UNCHANGED serverSide

\* wsInstance.onclose: if (reconnectAttempts < maxReconnectAttempts)
\* { reconnectAttempts++; reconnectTimeoutId = setTimeout(connect, ...) }
OnCloseHandler(c) ==
    IF c.reconnectAttempts < maxReconnectAttempts
    THEN [c EXCEPT !.wsInstance = "closed",
                   !.reconnectAttempts = @ + 1,
                   !.reconnectTimeoutId = TRUE]
    ELSE [c EXCEPT !.wsInstance = "closed"]

\* the close event: the connection failed, the server or the network closed
\* it, or close() was called on it
OnClose ==
    /\ client.wsInstance \in {"connecting", "open", "closing"}
    /\ client' = OnCloseHandler(client)
    /\ UNCHANGED serverSide

\* the timer fires: connect() makes a new WebSocket
Reconnect ==
    /\ client.reconnectTimeoutId
    /\ client.connects < MaxConnects
    /\ client' = [client EXCEPT
                     !.reconnectTimeoutId = FALSE,
                     !.wsInstance = "connecting",
                     !.connects = @ + 1,
                     !.connectsAfterCleanup = IF client.cleanedUp THEN @ + 1 ELSE @]
    /\ UNCHANGED serverSide

\* the cleanup of the effect: clearTimeout(reconnectTimeoutId), and
\* wsInstance.close(), whose close event comes later
Cleanup ==
    /\ ~client.cleanedUp
    /\ client' = [client EXCEPT
                     !.cleanedUp = TRUE,
                     !.reconnectTimeoutId = FALSE,
                     !.wsInstance = IF @ \in {"connecting", "open"}
                                    THEN "closing" ELSE @]
    /\ UNCHANGED serverSide

ClientNext ==
    \/ OnOpen
    \/ OnClose
    \/ Reconnect
    \/ Cleanup

SpecClient == ClientInit /\ [][ClientNext]_vars

\* ------------------------------------------------------------------------
\* Properties
\* ------------------------------------------------------------------------

IsPush(frame, id, streaming) ==
    /\ frame.type = "streaming_message"
    /\ frame.id = id
    /\ frame.isStreaming = streaming

\* positions in sent of the incremental pushes of the upstream answer
IncrementalPushes == { i \in 1..Len(sent) : IsPush(sent[i], assistantMessageId, TRUE) }

\* positions in sent of the final pushes of the message id
FinalPushes(id) == { i \in 1..Len(sent) : IsPush(sent[i], id, FALSE) }

Stripped(text) == processAIResponse(text).mainContent

\* content of the last incremental push, '' before the first
LastEmitted ==
    IF IncrementalPushes = {} THEN <<>>
    ELSE sent[CHOOSE i \in IncrementalPushes : \A j \in IncrementalPushes : j <= i].content

Returned == pc \in {"returned", "done"}

\* C1: merging a fragment into the accumulated text and then merging the
\* same fragment again gives the accumulated text of merging it once.
C1_MergeIdempotent ==
    \A t \in Texts :
        LET once == MergeFragment(fullResponse, t).full
        IN  MergeFragment(once, t).full = once

\* C2: the stripped text of the accumulated text after a fragment contains
\* the stripped text before it, and the content of every push of the
\* upstream answer contains the content of the push before it.
C2_MonotonicContainment ==
    /\ \A t \in Texts :
           Includes(Stripped(MergeFragment(fullResponse, t).full), Stripped(fullResponse))
    /\ \A i \in 1..Len(sent) : \A j \in 1..Len(sent) :
           (/\ i < j
            /\ sent[i].type = "streaming_message" /\ sent[i].id = assistantMessageId
            /\ sent[j].type = "streaming_message" /\ sent[j].id = assistantMessageId)
           => Includes(sent[j].content, sent[i].content)

\* C3: a stream that ended without a final event, with a non-empty
\* accumulated text, has led to exactly one final push of the assistant
\* message id and exactly one answer write by the time callDifyAPI returns.
C3_FinalizationOnSilence ==
    (Returned /\ body = "ended" /\ ~finalEventSeen /\ fullResponse # <<>>)
    => (Cardinality(FinalPushes(assistantMessageId)) = 1 /\ Len(answerWrites) = 1)

\* C4: the answer of the request's MessageRecord is written at most once,
\* by the finalize step only, after the stream ended and the final push
\* was sent; the record's row is inserted once, by handleNewMessage.
C4_AtMostOncePersistence ==
    /\ Len(answerWrites) <= 1
    /\ \A i \in 1..Len(answerWrites) : answerWrites[i].id = userMessageId
    /\ answerWrites # <<>>
       => (Returned /\ body = "ended" /\ FinalPushes(assistantMessageId) # {})
    /\ Cardinality({ i \in 1..Len(inserts) : inserts[i] = userMessageId }) <= 1

\* the request is done and the answer of its record was written
C4_Witness ==
    /\ pc = "done" /\ Len(answerWrites) = 1
    /\ answerWrites[1].answer # <<>> /\ answerWrites[1].think # <<>>

\* C5: when the stream ended with an empty accumulated text, no answer is
\* written, no final push of the assistant message id is sent, and
\* mockAIResponse was called.
C5_EmptyResultFallback ==
    (body = "ended" /\ fullResponse = <<>>)
    => /\ answerWrites = <<>>
       /\ FinalPushes(assistantMessageId) = {}
       /\ mockStarts = 1
       /\ pc \in {"mock", "returned", "done"}

\* only unusable lines were read, the stream ended, the mock reply was sent
C5_Witness ==
    /\ body = "ended" /\ fullResponse = <<>> /\ nread > 0
    /\ pc = "done" /\ FinalPushes(mockMessageId) # {}

\* C6 as stated: no two consecutive incremental pushes of the request carry
\* the same content.
C6_NoRedundantPush ==
    \A i \in IncrementalPushes : \A j \in IncrementalPushes :
        j = i + 1 => sent[j].content # sent[i].content

\* C6 as amended: while accumulating, an incremental push is sent only for
\* an accumulated text (fullResponse) that differs from the accumulated text
\* of the previous incremental push (lastSent), which it then becomes.
C6_PushOnlyOnRawChange ==
    [][(pc = "stream" /\ pc' = "stream" /\ sent' # sent)
       => /\ fullResponse' # lastSent
          /\ lastSent' = fullResponse'
          /\ sent' = Append(sent, StreamingMessage(assistantMessageId,
                         Stripped(fullResponse'),
                         processAIResponse(fullResponse').thinks, TRUE))]_vars

\* two consecutive incremental pushes with the same content
C6_Witness ==
    \E i \in IncrementalPushes : \E j \in IncrementalPushes :
        j = i + 1 /\ sent[j].content = sent[i].content

\* C7: between two records, the stripped text of the accumulated answer is
\* the content of the last incremental push ('' before the first).
C7_PushAfterEveryVisibleChange ==
    pc = "stream" => Stripped(fullResponse) = LastEmitted

\* C8: after reading the stream failed, no answer is written, no final push
\* of the assistant message id is sent, and mockAIResponse was called.
C8_ErrorPolicy ==
    body = "failed"
    => /\ answerWrites = <<>>
       /\ FinalPushes(assistantMessageId) = {}
       /\ mockStarts = 1
       /\ pc \in {"mock", "returned", "done"}

\* the stream failed after pushes of a partial answer
C8_Witness ==
    /\ body = "failed" /\ fullResponse # <<>> /\ IncrementalPushes # {}
    /\ pc = "done" /\ FinalPushes(mockMessageId) # {}

\* C10: a line whose payload fails to decode changes neither the
\* accumulated text, the watermark, the session id nor what was sent, and
\* the loop goes on reading the body.
C10_MalformedRecordDropped ==
    [][(pc = "stream" /\ nread' = nread + 1 /\ ~Decodes(payload'))
       => /\ UNCHANGED <<fullResponse, lastSent, firstMessageSent,
                         difyConversationId, dbDifyId, sent, answerWrites>>
          /\ pc' = "stream"
          /\ body' = "open"]_vars

\* a line was dropped, and a later line was merged and pushed
C10_Witness ==
    /\ dropped > 0 /\ pc = "stream"
    /\ payload = Event("text_chunk", "", <<>>, tB, <<>>, <<>>)
    /\ sent[Len(sent)] = StreamingMessage(assistantMessageId, fullResponse, <<>>, TRUE)
    /\ Len(fullResponse) > Len(tB)

\* C11: a first fragment t becomes the accumulated text; the fragment
\* t + ' ' + w that follows makes it t + ' ' + w; the same fragment once
\* more leaves it unchanged and sends nothing.
C11_CumulativeFragments ==
    [][(pc = "stream" /\ nread' = nread + 1 /\ Decodes(payload'))
       => LET fragment == NewContent(payload')
          IN  /\ (fullResponse = <<>> /\ fragment # <<>> /\ Trim(fragment) = fragment)
                 => fullResponse' = fragment
              /\ (fullResponse # <<>> /\ Len(fragment) > Len(fullResponse) + 1
                  /\ SubSeq(fragment, 1, Len(fullResponse) + 1) = fullResponse \o <<" ">>
                  /\ Trim(Slice(fragment, Len(fullResponse))) = Slice(fragment, Len(fullResponse) + 1))
                 => fullResponse' = fragment
              /\ (fullResponse # <<>> /\ fragment = fullResponse)
                 => (fullResponse' = fullResponse /\ sent' = sent)]_vars

\* "a" (with the only conversation_id c2), then "a b", then "a b" again
C11_Witness ==
    /\ pc = "stream" /\ nread = 3 /\ dbDifyId = "c2"
    /\ payload = Message("", tAB) /\ fullResponse = tAB
    /\ IncrementalPushes = {}

\* The pieces read as marked-up text: wellFormed when every marker is whole,
\* every start marker is closed before the next one opens and no end marker
\* stands alone; segments are the texts between the markers, in order.
RECURSIVE Parse(_, _, _)
Parse(ps, open, cur) ==
    IF ps = <<>> THEN [wellFormed |-> ~open, segments |-> <<>>]
    ELSE LET p == Head(ps)
             after(segment) ==
                 LET rest == Parse(Tail(ps), FALSE, <<>>)
                 IN  [wellFormed |-> rest.wellFormed,
                      segments |-> <<segment>> \o rest.segments]
         IN  IF p \in Plain THEN Parse(Tail(ps), open, IF open THEN cur \o p ELSE <<>>)
             ELSE IF p = OPEN /\ ~open THEN Parse(Tail(ps), TRUE, <<>>)
             ELSE IF p = CLOSE /\ open THEN after(cur)
             ELSE IF p \in Whole /\ ~open
             THEN after(SubSeq(p, Len(OPEN) + 1, Len(p) - Len(CLOSE)))
             ELSE [wellFormed |-> FALSE, segments |-> <<>>]

\* the trimmed entries of q that are not empty, in order
RECURSIVE NonBlankTrimmed(_)
NonBlankTrimmed(q) ==
    IF q = <<>> THEN <<>>
    ELSE (IF Trim(Head(q)) # <<>> THEN <<Trim(Head(q))>> ELSE <<>>)
             \o NonBlankTrimmed(Tail(q))

\* the entries of q from position i on that no earlier position holds
RECURSIVE FirstOccurrencesFrom(_, _)
FirstOccurrencesFrom(q, i) ==
    IF i > Len(q) THEN <<>>
    ELSE (IF \E j \in 1..(i - 1) : q[j] = q[i] THEN <<>> ELSE <<q[i]>>)
             \o FirstOccurrencesFrom(q, i + 1)

NoMarker(text) == ~Includes(text, OPEN) /\ ~Includes(text, CLOSE)

\* '<think>s</think>A' yields reasoning [s] and visible text A
ExampleExtracted ==
    Concat(pieces) = tThinkA
    => extracted[1] = [thinks |-> << <<"s">> >>, mainContent |-> <<"A">>]

\* C12 as stated: for a well-formed text of N segments the reasoning list
\* has N entries, the trimmed segments in order, all different, and the
\* visible text holds no marker.
C12_WellFormedExtraction ==
    (extracted # <<>> /\ Parse(pieces, FALSE, <<>>).wellFormed)
    => LET segments == Parse(pieces, FALSE, <<>>).segments
           thinks == extracted[1].thinks
       IN  /\ Len(thinks) = Len(segments)
           /\ \A i \in 1..Len(thinks) : thinks[i] = Trim(segments[i])
           /\ \A i \in 1..Len(thinks) : \A j \in 1..Len(thinks) :
                  i # j => thinks[i] # thinks[j]
           /\ NoMarker(extracted[1].mainContent)
           /\ ExampleExtracted

\* C12 as amended: for a well-formed text the reasoning list is the list of
\* its trimmed segments without the empty ones and without repeats, in the
\* order of first occurrence (N entries when the N segments are non-empty
\* and differ), and the visible text holds no marker.
C12_DistinctSegmentsExtracted ==
    (extracted # <<>> /\ Parse(pieces, FALSE, <<>>).wellFormed)
    => LET segments == Parse(pieces, FALSE, <<>>).segments
       IN  /\ extracted[1].thinks
                  = FirstOccurrencesFrom(NonBlankTrimmed(segments), 1)
           /\ NoMarker(extracted[1].mainContent)
           /\ ExampleExtracted

\* two different segments, one of them padded, around visible text
C12_Witness ==
    /\ pieces = <<OPEN \o <<" ", "A">> \o CLOSE, <<"A">>, OPEN \o <<"s">> \o CLOSE>>
    /\ extracted # <<>>
    /\ Parse(pieces, FALSE, <<>>).wellFormed
    /\ extracted[1] = [thinks |-> << <<"A">>, <<"s">> >>, mainContent |-> <<"A">>]

\* C13: the visible text returned by processAIResponse holds neither
\* '<think>' nor '</think>', whatever the input.
C13_NoMarkerInVisibleText ==
    extracted # <<>> => NoMarker(extracted[1].mainContent)

\* position of the last start marker of the text, 0 if it has none
LastOpen(text) == LastIndexOf(text, OPEN, Len(text))

\* the last start marker of the text has no end marker after it
Unterminated(text) ==
    LastOpen(text) # 0 /\ IndexOf(text, CLOSE, LastOpen(text)) = 0

\* the text after its last start marker, trimmed
TrimmedTail(text) == Trim(Slice(text, LastOpen(text) + Len(OPEN) - 1))

\* the visible text is the one of the text cut before its last start marker
TailRemoved(text, result) ==
    result.mainContent
        = processAIResponse(SubSeq(text, 1, LastOpen(text) - 1)).mainContent

\* C14 as stated: when the last start marker is not closed, the trimmed
\* text after it (if any) is an entry of the reasoning list, and the visible
\* text is that of the text without that marker and what follows it.
C14_UnterminatedTail ==
    (extracted # <<>> /\ Unterminated(Concat(pieces)))
    => /\ \/ TrimmedTail(Concat(pieces)) = <<>>
          \/ TrimmedTail(Concat(pieces)) \in Range(extracted[1].thinks)
       /\ TailRemoved(Concat(pieces), extracted[1])

\* C14 as amended: when the last start marker is not closed and the text
\* after it is not blank, an entry of the reasoning list ends with the
\* trimmed text after it (the entry starts after the first start marker
\* left unclosed), and the visible text is that of the text without that
\* marker and what follows it.
C14_UnterminatedTailKept ==
    (extracted # <<>> /\ Unterminated(Concat(pieces)))
    => /\ \/ TrimmedTail(Concat(pieces)) = <<>>
          \/ \E think \in Range(extracted[1].thinks) :
                 EndsWith(think, TrimmedTail(Concat(pieces)))
       /\ TailRemoved(Concat(pieces), extracted[1])

\* visible text, a complete segment, then a segment that is never closed
C14_Witness ==
    /\ pieces = << <<"A">>, OPEN \o <<"s">> \o CLOSE, OPEN, <<"A">> >>
    /\ extracted # <<>>
    /\ extracted[1] = [thinks |-> << <<"s">>, <<"A">> >>, mainContent |-> <<"A">>]

\* what the reasoning list is made from: the complete segments in text
\* order, then the text after the start marker left unclosed
Candidates(text) ==
    LET rest == Trim(RemoveComplete(text))
        k == IndexOf(rest, OPEN, 1)
    IN  CompleteThinks(text)
            \o (IF k = 0 THEN <<>> ELSE <<Slice(rest, k + Len(OPEN) - 1)>>)

\* C15: the reasoning list holds no two equal entries, every entry is
\* trimmed, and the entries stand in the order of their first occurrence:
\* the complete segments in text order, then the unterminated tail.
C15_ReasoningListDeduplicated ==
    extracted # <<>>
    => LET thinks == extracted[1].thinks
           found == NonBlankTrimmed(Candidates(Concat(pieces)))
           first(t) == CHOOSE i \in 1..Len(found) :
                           found[i] = t /\ \A j \in 1..(i - 1) : found[j] # t
       IN  /\ \A i \in 1..Len(thinks) : \A j \in 1..Len(thinks) :
                  i # j => thinks[i] # thinks[j]
           /\ \A i \in 1..Len(thinks) : Trim(thinks[i]) = thinks[i]
           /\ Range(thinks) = Range(found)
           /\ \A i \in 1..Len(thinks) : \A j \in 1..Len(thinks) :
                  i < j => first(thinks[i]) < first(thinks[j])

\* a segment, a padded one, and the first again as the unterminated tail
C15_Witness ==
    /\ pieces = << OPEN \o <<"s">> \o CLOSE, OPEN \o <<" ", "A">> \o CLOSE,
                   OPEN, <<"s">> >>
    /\ extracted # <<>>
    /\ extracted[1].thinks = << <<"s">>, <<"A">> >>

\* C16: after the final push of the assistant message id no further
\* streaming_message of that id is sent, and the answer is stored once: no
\* record read after the final push stores or changes it.
C16_DoneIsTerminal ==
    /\ \A i \in 1..Len(sent) : \A j \in 1..Len(sent) :
           (i < j /\ IsPush(sent[i], assistantMessageId, FALSE))
           => ~(sent[j].type = "streaming_message" /\ sent[j].id = assistantMessageId)
    /\ Cardinality({ i \in 1..Len(inserts) : inserts[i] = assistantMessageId }) <= 1
    /\ Len(answerWrites) <= 1

\* the lines of one body through the loop body, the one after the other and
\* nothing in between: the locals after them and the pushes sent
RECURSIVE Replay(_, _)
Replay(r, lines) ==
    IF lines = <<>> THEN [locals |-> Fresh, pushes |-> <<>>]
    ELSE LET before == Replay(r, SubSeq(lines, 1, Len(lines) - 1))
             after == LoopBody(before.locals, lines[Len(lines)])
         IN  [locals |-> after.locals,
              pushes |-> IF after.push
                         THEN Append(before.pushes,
                                     PushOf(r, after.locals.fullResponse, TRUE))
                         ELSE before.pushes]

\* the streaming_message frames of request r, as its connection carried them
RECURSIVE FramesOn(_, _)
FramesOn(frames, id) ==
    IF frames = <<>> THEN <<>>
    ELSE (IF Head(frames).type = "streaming_message" /\ Head(frames).id = id
          THEN <<Head(frames)>> ELSE <<>>) \o FramesOn(Tail(frames), id)

\* C17: whatever the interleaving with the lines of the other request, the
\* accumulated text, the watermark and the streaming_message frames of a
\* request are those its own lines give when handled alone, and the two
\* requests have different assistant message ids.
C17_RequestIsolation ==
    /\ AssistantId(1) # AssistantId(2)
    /\ \A r \in Requests :
           LET alone == Replay(r, streams[r].fed)
               final == IF streams[r].pc = "returned"
                        THEN <<PushOf(r, alone.locals.fullResponse, FALSE)>>
                        ELSE <<>>
           IN  /\ locals[r] = alone.locals
               /\ FramesOn(wire[streams[r].ws], AssistantId(r)) = alone.pushes \o final

\* both requests are on one connection, each has pushed and returned, and
\* a push of the second lies between two frames of the first
C17_Witness ==
    /\ \A r \in Requests : streams[r].pc = "returned" /\ streams[r].ws = 1
    /\ locals[1].fullResponse # locals[2].fullResponse
    /\ \E i \in 1..Len(wire[1]) : \E j \in 1..Len(wire[1]) : \E k \in 1..Len(wire[1]) :
           /\ i < j /\ j < k
           /\ wire[1][i].id = AssistantId(1)
           /\ wire[1][j].id = AssistantId(2)
           /\ wire[1][k].id = AssistantId(1)

\* C18: when the connection closed while the body was being read, the loop
\* still reads the body to its end without falling back to mockAIResponse
\* for an error, and a body that ended with a non-empty accumulated text has
\* led to the answer write of the request's record by the time callDifyAPI
\* returns.
C18_DisconnectDoesNotAbort ==
    (closedIn = "stream" /\ body = "ended" /\ fullResponse # <<>> /\ Returned)
    => (Len(answerWrites) = 1 /\ answerWrites[1].id = userMessageId)

\* C19: a decoded event whose conversation_id differs from the one known
\* makes it the one known and writes it to the conversation's record,
\* whether or not the event carries text.
C19_SessionIdSurfaced ==
    [][(/\ pc = "stream" /\ nread' = nread + 1 /\ Decodes(payload')
        /\ ReportsNewId(payload', difyConversationId))
       => /\ difyConversationId' = payload'.conversation_id
          /\ dbDifyId' = payload'.conversation_id]_vars

\* the upstream request of the current call has been sent
RequestSent == configured /\ pc \notin {"idle", "call", "probe"}

\* C20: once an earlier request of the conversation had a conversation_id
\* reported by its stream, the upstream request of the next request carries
\* the last id reported.
C20_SessionIdCached ==
    (Len(reported) > 1 /\ reported[Len(reported) - 1] # "" /\ RequestSent)
    => requestCid = reported[Len(reported) - 1]

\* the last line cut off the buffer and handed to the loop body
LastRecord(lines) == lines[Len(lines)]

\* the text of a line after the prefix 'data: ', when it has one
WithoutPrefix(line) ==
    IF line # <<>> /\ Head(line) = DataPrefix THEN SubSeq(line, 2, Len(line)) ELSE line

\* the payloads that are JSON text
ValidJSON == { <<jHead, jTail>>, <<jText>> }

\* C21 as stated: a line that does not begin with 'data: ' changes neither
\* the accumulated text, the session id nor what was sent.
C21_OnlyPrefixedLinesArePayload ==
    [][(nread' = nread + 1 /\ ~StartsWithData(LastRecord(records')))
       => UNCHANGED <<fullResponse, difyConversationId, dbDifyId, sent>>]_vars

\* C21: a line is a payload record when its text after an optional prefix
\* 'data: ' is JSON, with the prefix or without it: its event is merged and
\* its session id written; any other line changes neither the accumulated
\* text, the watermark, the session id nor what was sent.
C21_PrefixOptional ==
    [][(nread' = nread + 1)
       => LET json == WithoutPrefix(LastRecord(records'))
          IN  IF json \in ValidJSON
              THEN /\ payload' = JSONParse(StartsWithData(LastRecord(records')), json)
                   /\ fullResponse'
                        = MergeFragment(fullResponse, NewContent(payload')).full
                   /\ payload'.conversation_id # ""
                      => /\ difyConversationId' = payload'.conversation_id
                         /\ dbDifyId' = payload'.conversation_id
              ELSE UNCHANGED <<fullResponse, lastSent, difyConversationId,
                               dbDifyId, sent>>]_vars

\* half an object on a line was dropped, then a whole object on a line
\* without the prefix was merged and its session id written
C21_Witness ==
    /\ records = << <<jHead>>, <<jHead, jTail>> >>
    /\ dropped = 1
    /\ fullResponse = tA
    /\ dbDifyId = "c2"

\* text.split('\n') without its last part: the whole lines of a text,
\* trimmed, in order
RECURSIVE LinesOf(_)
LinesOf(text) ==
    LET i == IndexOf(text, <<NL>>, 1)
    IN  IF i = 0 THEN <<>>
        ELSE <<Trim(SubSeq(text, 1, i - 1))>> \o LinesOf(Slice(text, i))

NonBlank(lines) == SelectSeq(lines, LAMBDA line : line # <<>>)

\* what follows the last newline of a text
Remainder(text) == Slice(text, LastIndexOf(text, <<NL>>, Len(text)))

ParseAll(lines) == [i \in 1..Len(lines) |-> ParseLine(lines[i])]

\* C22: however the body is cut into chunks, the lines handed to the loop
\* body are the non-blank whole lines of the text that has arrived, the
\* accumulated text and the watermark are those of these lines handled in
\* order, and so are the streaming_message frames sent; after the end of the
\* body they are those of the whole body.
C22_ChunkBoundaryIndependence ==
    LET handled == Replay(1, ParseAll(records))
        final == IF body = "ended" /\ FinalizeDue
                 THEN <<PushOf(1, fullResponse, FALSE)>> ELSE <<>>
    IN  /\ records \o NonBlank(LinesOf(buffer)) = NonBlank(LinesOf(arrived))
        /\ Remainder(buffer) = Remainder(arrived)
        /\ fullResponse = handled.locals.fullResponse
        /\ lastSent = handled.locals.lastSent
        /\ firstMessageSent = handled.locals.firstMessageSent
        /\ FramesOn(sent, assistantMessageId) = handled.pushes \o final
        /\ body = "ended" => (unread = <<>> /\ records = NonBlank(LinesOf(arrived)))

\* a body of two lines that came in chunks ending inside a line ended with
\* the push of both fragments and the final push
C22_Witness ==
    /\ body = "ended" /\ carried
    /\ records = << <<jText>>, <<jHead, jTail>> >>
    /\ fullResponse = <<"b", " ", "a">>
    /\ Len(FramesOn(sent, assistantMessageId)) = 2

\* the kinds of event that carry text, or end the answer, where the event
\* field is looked at (vite.config.js: the cases of switch (data.event) that
\* are not lifecycle events); every other kind is a lifecycle kind or unknown
ContentKinds == { "message", "text", "node_finished", "message_end" }

\* C23: a decoded event of a lifecycle kind or an unknown kind changes
\* neither the accumulated text nor what was sent.
C23_LifecycleEventsCarryNoText ==
    [][(/\ pc = "stream" /\ nread' = nread + 1 /\ Decodes(payload')
        /\ payload'.event \notin ContentKinds)
       => UNCHANGED <<fullResponse, sent>>]_vars

\* the fragment of the event comes from data.outputs.answer or
\* data.outputs.sys.answer
FromOutputs(data) ==
    /\ data.answer = <<>> /\ data.text = <<>>
    /\ (data.outAnswer # <<>> \/ data.sysAnswer # <<>>)

\* C24: after an event whose fragment comes from data.outputs.answer or
\* data.outputs.sys.answer the accumulated text is that field's value: the
\* field replaces what was accumulated.
C24_OutputsReplaceText ==
    [][(/\ pc = "stream" /\ nread' = nread + 1 /\ Decodes(payload')
        /\ FromOutputs(payload'))
       => fullResponse' = NewContent(payload')]_vars

\* handleGetMessages without the database: the assistant entries built from
\* the in-memory records, one for each record with an answer
RECURSIVE AssistantEntries(_)
AssistantEntries(messages) ==
    IF messages = <<>> THEN <<>>
    ELSE (IF Head(messages).answer # <<>>
          THEN <<[id |-> Head(messages).id, role |-> "assistant",
                  content |-> Head(messages).answer]>>
          ELSE <<>>) \o AssistantEntries(Tail(messages))

\* callDifyAPI finalized the upstream answer of the request
Finalized == body = "ended" /\ FinalPushes(assistantMessageId) # {}

\* C25: without the database, once the answer of the request was finalized
\* the in-memory record of the request holds the stripped answer, so that
\* get_messages returns one assistant entry with it.
C25_DegradedStoreRecordsAnswer ==
    (~databaseAvailable /\ pc = "done" /\ Finalized)
    => /\ Len(AssistantEntries(inMemoryMessages)) = 1
       /\ AssistantEntries(inMemoryMessages)[1].content = Stripped(fullResponse)

\* the step is the dispatch of a frame of the kind that came in on ws
Dispatches(ws, kind) == received'[ws] = Append(received[ws], kind)

\* C26: a frame that is not JSON is answered by one error frame on the
\* connection it came in on; nothing is sent on the other connection, the
\* stored messages are not changed and the connection stays open; a
\* get_messages request that comes in on a connection, after such a frame
\* or not, is answered by the messages of the store.
C26_ProtocolErrorReported ==
    [][\A ws \in Sockets :
          /\ Dispatches(ws, "garbage")
             => /\ wire'[ws] = Append(wire[ws], ErrorFrame)
                /\ \A other \in Sockets \ {ws} : wire'[other] = wire[other]
                /\ UNCHANGED <<inMemoryMessages, inserts, answerWrites>>
                /\ connections'[ws] = connections[ws]
                /\ connections'[ws].state = "open"
          /\ Dispatches(ws, "get_messages")
             => wire'[ws] = Append(wire[ws],
                                   Frame("messages", "", FormattedMessages(inMemoryMessages),
                                         <<>>, FALSE))]_vars

\* on the first connection a frame that is not JSON was answered by an
\* error frame, and the new_message and get_messages requests after it were
\* answered; the second connection is open and has carried its welcome only
C26_Witness ==
    /\ received[1] = <<"garbage", "new_message", "get_messages">>
    /\ wire[1][2] = ErrorFrame
    /\ { i \in 1..Len(wire[1]) : wire[1][i].type = "error" } = {2}
    /\ wire[1][Len(wire[1])].type = "messages"
    /\ wire[1][Len(wire[1])].content # <<>>
    /\ connections[2].state = "open"
    /\ Len(wire[2]) = 1

\* every endpoint attempt of the request failed in fetch
Unreachable == configured /\ response = "none" /\ pc \notin {"idle", "call", "probe"}

\* C27: when every endpoint attempt failed at the transport level, or
\* reading the body failed, callDifyAPI has called mockAIResponse and the
\* client has its final push by the time callDifyAPI returns.
C27_TransportErrorFallback ==
    ((Unreachable \/ body = "failed") /\ Returned)
    => (mockStarts = 1 /\ FinalPushes(mockMessageId) # {})

\* the step hands a decoded event with a fragment to the merge
MergesFragment ==
    /\ pc = "stream" /\ nread' = nread + 1 /\ Decodes(payload')
    /\ NewContent(payload') # <<>>

\* C28: when the accumulated text is a substring of the trimmed candidate,
\* the merge only appends, the accumulated text afterwards contains the
\* candidate, and it holds no more text than the candidate.
C28_SupersetMerge ==
    [][(/\ MergesFragment
        /\ fullResponse # <<>>
        /\ Includes(Trim(NewContent(payload')), fullResponse))
       => /\ SubSeq(fullResponse', 1, Len(fullResponse)) = fullResponse
          /\ Includes(fullResponse', Trim(NewContent(payload')))
          /\ Len(fullResponse') <= Len(Trim(NewContent(payload')))]_vars

\* C29: a fragment whose trimmed text is the accumulated text or a substring
\* of it changes neither the accumulated text nor the watermark, and nothing
\* is sent.
C29_DuplicateFragmentsAreNoOps ==
    [][(/\ MergesFragment
        /\ \/ Trim(NewContent(payload')) = fullResponse
           \/ Includes(fullResponse, Trim(NewContent(payload'))))
       => UNCHANGED <<fullResponse, lastSent, firstMessageSent, sent>>]_vars

\* C30: a first fragment makes its trimmed text the accumulated text; a
\* fragment that neither contains the accumulated text nor is contained in
\* it makes the accumulated text the previous text, one space and the
\* trimmed fragment.
C30_PlainAppend ==
    [][MergesFragment
       => LET candidate == Trim(NewContent(payload'))
          IN  /\ (fullResponse = <<>> /\ candidate # <<>>)
                 => fullResponse' = candidate
              /\ (/\ fullResponse # <<>> /\ candidate # <<>>
                  /\ ~Includes(fullResponse, candidate)
                  /\ ~Includes(candidate, fullResponse))
                 => fullResponse' = fullResponse \o <<" ">> \o candidate]_vars

\* the first fragment became the accumulated text, and the second, which
\* shares nothing with it, was appended after a space and pushed
C30_Witness ==
    /\ pc = "stream"
    /\ records = << <<jText>>, <<jHead, jTail>> >>
    /\ fullResponse = tB \o <<" ">> \o tA
    /\ lastSent = fullResponse
    /\ IncrementalPushes # {}

\* C31: the answer and the reasoning list of every answer write are the
\* content and the thinks of a final push of the assistant message id that
\* was sent before the write; while the write is pending the final push has
\* been sent.
C31_FinalPushAndWriteAgree ==
    /\ \A i \in 1..Len(answerWrites) :
           \E j \in FinalPushes(assistantMessageId) :
               /\ sent[j].content = answerWrites[i].answer
               /\ sent[j].thinks = answerWrites[i].think
    /\ pc = "persist"
       => (answerWrites = <<>> /\ FinalPushes(assistantMessageId) # {})

\* an answer with a reasoning segment was finalized and written: the write
\* and the final push carry the stripped text, not the accumulated one
C31_Witness ==
    /\ pc = "returned" /\ Len(answerWrites) = 1
    /\ answerWrites[1].answer # fullResponse
    /\ answerWrites[1].think = <<<<"s">>>>
    /\ sent[Len(sent)] = StreamingMessage(assistantMessageId, answerWrites[1].answer,
                                          answerWrites[1].think, FALSE)

\* the ids under which a request sends streaming_message frames
StreamIds == { assistantMessageId, mockMessageId }

\* C32: when the handler of the request is done, after which it sends
\* nothing, every message id of which a streaming_message with isStreaming
\* true was sent has had a streaming_message with isStreaming false.
C32_NoDanglingMessageId ==
    pc = "done"
    => \A id \in StreamIds :
           (\E i \in 1..Len(sent) : IsPush(sent[i], id, TRUE))
           => FinalPushes(id) # {}

\* C33: the answer of every answer write is a non-empty string.
C33_PersistedAnswerNotEmpty ==
    \A i \in 1..Len(answerWrites) : answerWrites[i].answer # <<>>

StartsWith(text, start) ==
    Len(start) <= Len(text) /\ SubSeq(text, 1, Len(start)) = start

\* C35: while the stream is read, fullResponse only grows by appending (its
\* value before a record is a prefix of its value after it), and it never
\* begins or ends with whitespace
C35_AppendOnlyAccumulation ==
    /\ [](Trim(fullResponse) = fullResponse)
    /\ [][pc = "stream" => StartsWith(fullResponse', fullResponse)]_vars

C35_Witness ==
    /\ pc = "stream" /\ nread >= 2
    /\ StartsWith(fullResponse, tA \o <<" ">>)
    /\ Len(fullResponse) > Len(tAB)

FramesOfType(type) == { i \in 1..Len(sent) : sent[i].type = type }

RecordsOf(rows, entries, id) == WithId(rows, id) \cup WithId(entries, id)

\* C37: when the two requests have resolved, two that named the same
\* conversation id resolved to the same record and there is exactly one
\* record of that id in table and Map together; so for the same user id
C37_ConcurrentResolveOrCreate ==
    (\A r \in Requests : resolving[r].pc = "resolved")
    => /\ (resolving[1].conversationId = resolving[2].conversationId
           /\ resolving[1].conversationId # "")
          => /\ resolving[1].conversation.id = resolving[2].conversation.id
             /\ resolving[1].conversation.store = resolving[2].conversation.store
             /\ Cardinality(RecordsOf(conversations, inMemoryConversations,
                                      resolving[1].conversationId)) = 1
       /\ resolving[1].userId = resolving[2].userId
          => /\ resolving[1].user = resolving[2].user
             /\ Cardinality(RecordsOf(users, inMemoryUsers, resolving[1].userId)) = 1

\* C38: the endpoints are contacted in list order, each only after all
\* earlier ones failed and none after an OK response; the stream read is
\* that of the OK response; and when every endpoint returned a response that
\* is not OK, the client gets exactly one error event and no
\* streaming_message
C38_FirstSuccessWins ==
    /\ \A i \in 1..Len(contacted) :
           /\ contacted[i].endpoint = i
           /\ \A j \in 1..(i - 1) : contacted[j].outcome # "ok"
    /\ pc = "stream" => /\ contacted # <<>>
                        /\ contacted[Len(contacted)].outcome = "ok"
    /\ (/\ pc = "done"
        /\ Len(contacted) = Cardinality(Endpoints)
        /\ \A i \in 1..Len(contacted) : contacted[i].outcome \in {"404", "500"})
       => /\ Cardinality(FramesOfType("error")) = 1
          /\ FramesOfType("streaming_message") = {}

\* C39: once the connection effect was cleaned up, no reconnect is scheduled
\* (the close event of the socket the cleanup closed included) and connect()
\* is not called again
C39_CleanupStopsReconnection ==
    client.cleanedUp
    => /\ ~client.reconnectTimeoutId
       /\ client.connectsAfterCleanup = 0

\* a frame that ends the client's wait: a final push or an error event
Resolves(frame) ==
    \/ frame.type = "error"
    \/ frame.type = "streaming_message" /\ ~frame.isStreaming

\* C9: a request whose upstream call failed or whose stream terminated has
\* sent a final push or an error event by the time its handler is done.
C9_NoUnresolvedRequest ==
    pc = "done" => \E i \in 1..Len(sent) : Resolves(sent[i])
====
